---- MODULE Spec2Model ----
(***************************************************************************)
(* Payroll calculator of the HR assistant (PayrollAgent in                 *)
(* HR_root_agent/sub_agents/payroll_agent/agent.py).                       *)
(*                                                                         *)
(* Money is a Python float in the source.  Here a money amount is an       *)
(* integer number of units, Unit units to the dollar; a tax rate is an     *)
(* integer number of 1/RateDen; a deduction value is an integer number of  *)
(* hundredths (0.05 is 5, 150.00 is 15000).  A product with a rate is the  *)
(* floor of the exact product; the inputs the specifications draw are      *)
(* chosen so that every product and quotient is exact, hence every amount  *)
(* below is the exact rational value of the source's expression.           *)
(***************************************************************************)
EXTENDS Integers, Sequences, FiniteSets, TLC

\* units per dollar: 312 = lcm(52, 26, 24, 12), the pay-period divisors
Unit == 312 * 20
\* a coarser unit for walking the bracket tables alone, up to their top bracket
CoarseUnit == 2 * 10
\* denominator of the rates: 0.062 is 620 / RateDen
RateDen == 100 * 100
\* denominator of deduction values: 0.05 is 5 / ValueDen
ValueDen == 10 * 10
\* float('inf')
Inf == 2147483647

Min(a, b) == IF a <= b THEN a ELSE b
Max(a, b) == IF a >= b THEN a ELSE b

\* floor(x * num / den), computed without leaving the 32-bit range
MulDiv(x, num, den) == (x \div den) * num + ((x % den) * num) \div den
\* x * rate for a rate given in 1/RateDen
MulRate(x, rate) == MulDiv(x, rate, RateDen)

\* dict.get(key, default)
Get(d, key, default) == IF key \in DOMAIN d THEN d[key] ELSE default

\* str.lower() on the pay types the model uses
Lower(s) == IF s \in {"Salary", "SALARY"} THEN "salary"
            ELSE IF s \in {"Hourly", "HOURLY"} THEN "hourly" ELSE s

\* a dollar amount of a rate table in units of 1/u dollar; an amount beyond
\* the representable range is beyond every income of the model, like inf
Limit(dollars, u) == IF dollars > Inf \div u THEN Inf ELSE dollars * u

Bracket(dollars, rate, u) == [bracket |-> Limit(dollars, u), rate |-> rate]

\* PayrollAgent._load_tax_rates, bracket bounds in units of 1/u dollar
TaxRates(u) ==
  [federal |-> << Bracket(10000, 1000, u), Bracket(40000, 1200, u),
                  Bracket(85000, 2200, u), Bracket(165000, 2400, u),
                  Bracket(210000, 3200, u), Bracket(530000, 3500, u),
                  Bracket(Inf, 3700, u) >>,
   state |-> [CA |-> << Bracket(10000, 100, u), Bracket(20000, 200, u),
                        Bracket(30000, 400, u), Bracket(50000, 600, u),
                        Bracket(70000, 800, u), Bracket(100000, 930, u),
                        Bracket(Inf, 1030, u) >>,
              NY |-> << Bracket(12000, 400, u), Bracket(25000, 450, u),
                        Bracket(50000, 525, u), Bracket(80000, 585, u),
                        Bracket(200000, 625, u), Bracket(Inf, 685, u) >>,
              TX |-> << Bracket(Inf, 0, u) >>,
              FL |-> << Bracket(Inf, 0, u) >>,
              DEFAULT |-> << Bracket(50000, 400, u), Bracket(100000, 600, u),
                             Bracket(Inf, 800, u) >>],
   social_security |-> 620,
   medicare |-> 145,
   futa |-> 60,
   sui |-> [CA |-> 340, NY |-> 360, TX |-> 270, FL |-> 290, DEFAULT |-> 300]]

\* self.tax_rates
tax_rates == TaxRates(Unit)

\* one entry of the deduction-type catalog
DeductionType(type, pre_tax, description) ==
  [type |-> type, pre_tax |-> pre_tax, description |-> description]

\* PayrollAgent._load_deduction_types (self.deduction_types)
deduction_types ==
  ("401k" :> DeductionType("percentage", TRUE, "401(k) Retirement Plan")) @@
  ("health_insurance" :> DeductionType("fixed", TRUE, "Health Insurance Premium")) @@
  ("dental_insurance" :> DeductionType("fixed", TRUE, "Dental Insurance Premium")) @@
  ("vision_insurance" :> DeductionType("fixed", TRUE, "Vision Insurance Premium")) @@
  ("fsa" :> DeductionType("fixed", TRUE, "Flexible Spending Account")) @@
  ("life_insurance" :> DeductionType("fixed", FALSE, "Life Insurance Premium")) @@
  ("charity" :> DeductionType("percentage", FALSE, "Charitable Contribution")) @@
  ("garnishment" :> DeductionType("fixed", FALSE, "Wage Garnishment"))

\* the simplified value of one withholding allowance, allowances * 4050
AllowanceValue == 4050 * Unit

\* the loop leaving at the reached bracket before taxing the part in it
RECURSIVE ProgressiveTaxLoop_ExitBeforeAdd(_, _, _, _, _)
ProgressiveTaxLoop_ExitBeforeAdd(taxable_income, brackets, i, total_tax, previous_bracket) ==
  IF i > Len(brackets) THEN total_tax
  ELSE LET bracket_limit == brackets[i].bracket
           rate == brackets[i].rate
           taxable_in_bracket == Min(taxable_income, bracket_limit) - previous_bracket
       IN IF taxable_income <= bracket_limit THEN total_tax
          ELSE ProgressiveTaxLoop_ExitBeforeAdd(taxable_income, brackets, i + 1,
                 total_tax + MulRate(taxable_in_bracket, rate), bracket_limit)

\* the loop with total_tax = tax_in_bracket in place of total_tax += tax_in_bracket
RECURSIVE ProgressiveTaxLoop_Overwrite(_, _, _, _, _)
ProgressiveTaxLoop_Overwrite(taxable_income, brackets, i, total_tax, previous_bracket) ==
  IF i > Len(brackets) THEN total_tax
  ELSE LET bracket_limit == brackets[i].bracket
           rate == brackets[i].rate
           taxable_in_bracket == Min(taxable_income, bracket_limit) - previous_bracket
           added == IF taxable_income > previous_bracket
                    THEN MulRate(taxable_in_bracket, rate)
                    ELSE total_tax
       IN IF taxable_income <= bracket_limit THEN added
          ELSE ProgressiveTaxLoop_Overwrite(taxable_income, brackets, i + 1, added,
                                            bracket_limit)

\* the loop of _calculate_progressive_tax from bracket i on
RECURSIVE ProgressiveTaxLoop(_, _, _, _, _)
ProgressiveTaxLoop(taxable_income, brackets, i, total_tax, previous_bracket) ==
  IF i > Len(brackets) THEN total_tax
  ELSE LET bracket_limit == brackets[i].bracket
           rate == brackets[i].rate
           taxable_in_bracket == Min(taxable_income, bracket_limit) - previous_bracket
           added == IF taxable_income > previous_bracket
                    THEN total_tax + MulRate(taxable_in_bracket, rate)
                    ELSE total_tax
       IN IF taxable_income <= bracket_limit THEN added
          ELSE ProgressiveTaxLoop(taxable_income, brackets, i + 1, added, bracket_limit)

\* the function with the allowances left out of the standard deduction
CalculateProgressiveTax_NoAllowances(income, brackets, allowances) ==
  ProgressiveTaxLoop(Max(0, income), brackets, 1, 0, 0)

\* PayrollAgent._calculate_progressive_tax
CalculateProgressiveTax(income, brackets, allowances) ==
  LET standard_deduction == allowances * AllowanceValue
      taxable_income == Max(0, income - standard_deduction)
  IN ProgressiveTaxLoop(taxable_income, brackets, 1, 0, 0)

\* the pay-period divisor chain of _calculate_employee_payroll:
\* 52, 26, 24, 12 and 26 for any other period type
PeriodDivisor(period_type) ==
  IF period_type = "weekly" THEN 52
  ELSE IF period_type = "biweekly" THEN 26
  ELSE IF period_type = "semimonthly" THEN 24
  ELSE IF period_type = "monthly" THEN 12
  ELSE 26

\* gross pay with overtime paid at twice the rate
GrossPay_DoubleOvertime(employee, pay_period) ==
  IF Lower(Get(employee, "pay_type", "")) = "salary"
  THEN (Get(employee, "salary", 0) * Unit) \div PeriodDivisor(pay_period.period_type)
  ELSE Get(employee, "salary", 0) * Get(employee, "hours_worked", 0) * Unit
       + Get(employee, "salary", 0) * 2 * Get(employee, "overtime_hours", 0) * Unit

\* the code of a field value that float() does not accept, such as "abc"
NotANumber == 0 - Inf

\* float(v) raises ValueError
FloatRaises(v) == v = NotANumber

\* one of the float() conversions of the gross pay raises ValueError
GrossPayRaises(employee) ==
  IF Lower(Get(employee, "pay_type", "")) = "salary"
  THEN FloatRaises(Get(employee, "salary", 0))
  ELSE \/ FloatRaises(Get(employee, "salary", 0))
       \/ FloatRaises(Get(employee, "hours_worked", 0))
       \/ FloatRaises(Get(employee, "overtime_hours", 0))

\* gross pay of _calculate_employee_payroll
GrossPay(employee, pay_period) ==
  IF Lower(Get(employee, "pay_type", "")) = "salary"
  THEN LET annual_salary == Get(employee, "salary", 0) * Unit
           divisor == PeriodDivisor(pay_period.period_type)
       IN annual_salary \div divisor
  ELSE LET hourly_rate == Get(employee, "salary", 0)
           regular_hours == Get(employee, "hours_worked", 0)
           overtime_hours == Get(employee, "overtime_hours", 0)
           regular_pay == hourly_rate * regular_hours * Unit
           overtime_pay == (hourly_rate * 3 * overtime_hours * Unit) \div 2
       IN regular_pay + overtime_pay

\* the deductions loop withholding a kind the catalog lacks as a fixed
\* post-tax amount
RECURSIVE DeductionsLoop_UnknownAsFixed(_, _, _, _)
DeductionsLoop_UnknownAsFixed(gross_pay, items, i, acc) ==
  IF i > Len(items) THEN acc
  ELSE LET deduction_name == items[i][1]
           deduction_value == items[i][2]
           deduction_info == IF deduction_name \in DOMAIN deduction_types
                             THEN deduction_types[deduction_name]
                             ELSE DeductionType("fixed", FALSE, deduction_name)
           amount == IF deduction_info.type = "percentage"
                     THEN MulDiv(gross_pay, deduction_value, ValueDen)
                     ELSE (deduction_value * Unit) \div ValueDen
           line == [name |-> deduction_info.description,
                    amount |-> amount,
                    pre_tax |-> deduction_info.pre_tax]
       IN DeductionsLoop_UnknownAsFixed(gross_pay, items, i + 1,
            [pre_tax_deductions |-> acc.pre_tax_deductions
                + (IF deduction_info.pre_tax THEN amount ELSE 0),
             post_tax_deductions |-> acc.post_tax_deductions
                + (IF deduction_info.pre_tax THEN 0 ELSE amount),
             deductions_breakdown |-> Append(acc.deductions_breakdown, line)])

\* the deductions loop withholding every kind as a fixed amount, whatever
\* the type the catalog gives it
RECURSIVE DeductionsLoop_AllFixed(_, _, _, _)
DeductionsLoop_AllFixed(gross_pay, items, i, acc) ==
  IF i > Len(items) THEN acc
  ELSE LET deduction_name == items[i][1]
           deduction_value == items[i][2]
       IN IF deduction_name \in DOMAIN deduction_types
          THEN LET deduction_info == deduction_types[deduction_name]
                   amount == (deduction_value * Unit) \div ValueDen
                   line == [name |-> deduction_info.description,
                            amount |-> amount,
                            pre_tax |-> deduction_info.pre_tax]
               IN DeductionsLoop_AllFixed(gross_pay, items, i + 1,
                    [pre_tax_deductions |-> acc.pre_tax_deductions
                        + (IF deduction_info.pre_tax THEN amount ELSE 0),
                     post_tax_deductions |-> acc.post_tax_deductions
                        + (IF deduction_info.pre_tax THEN 0 ELSE amount),
                     deductions_breakdown |-> Append(acc.deductions_breakdown, line)])
          ELSE DeductionsLoop_AllFixed(gross_pay, items, i + 1, acc)

\* the deductions loop of _calculate_employee_payroll over the items of the
\* record's deduction map, a sequence of <<name, value>> in iteration order
RECURSIVE DeductionsLoop(_, _, _, _)
DeductionsLoop(gross_pay, items, i, acc) ==
  IF i > Len(items) THEN acc
  ELSE LET deduction_name == items[i][1]
           deduction_value == items[i][2]
       IN IF deduction_name \in DOMAIN deduction_types
          THEN LET deduction_info == deduction_types[deduction_name]
                   amount == IF deduction_info.type = "percentage"
                             THEN MulDiv(gross_pay, deduction_value, ValueDen)
                             ELSE (deduction_value * Unit) \div ValueDen
                   line == [name |-> deduction_info.description,
                            amount |-> amount,
                            pre_tax |-> deduction_info.pre_tax]
               IN DeductionsLoop(gross_pay, items, i + 1,
                    [pre_tax_deductions |-> acc.pre_tax_deductions
                        + (IF deduction_info.pre_tax THEN amount ELSE 0),
                     post_tax_deductions |-> acc.post_tax_deductions
                        + (IF deduction_info.pre_tax THEN 0 ELSE amount),
                     deductions_breakdown |-> Append(acc.deductions_breakdown, line)])
          ELSE DeductionsLoop(gross_pay, items, i + 1, acc)

\* the employee Social Security withholding of _calculate_employee_payroll
SocialSecurityTax(taxable_income) ==
  Min(MulRate(taxable_income, tax_rates.social_security),
      MulRate((147000 * Unit) \div 26, tax_rates.social_security))

\* the employee Medicare withholding of _calculate_employee_payroll, with
\* the additional Medicare tax for high earners
MedicareTax(taxable_income, annualized_income) ==
  LET medicare_tax == MulRate(taxable_income, tax_rates.medicare)
      additional_medicare == MulRate(annualized_income - 200000 * Unit, 90) \div 26
  IN IF annualized_income > 200000 * Unit
     THEN medicare_tax + additional_medicare
     ELSE medicare_tax

\* net pay with the post-tax deductions left in
NetPay_KeepPostTax(gross_pay, pre_tax_deductions, total_taxes, post_tax_deductions) ==
  gross_pay - pre_tax_deductions - total_taxes

\* net pay of _calculate_employee_payroll
NetPay(gross_pay, pre_tax_deductions, total_taxes, post_tax_deductions) ==
  gross_pay - pre_tax_deductions - total_taxes - post_tax_deductions

\* the state lookup falling back to the first table instead of DEFAULT
StateOfEmployee_FallBackToCA(employee) ==
  IF Get(employee, "state", "DEFAULT") \in DOMAIN tax_rates.state
  THEN Get(employee, "state", "DEFAULT")
  ELSE "CA"

\* the state whose brackets tax the employee: its own or DEFAULT
StateOfEmployee(employee) ==
  IF Get(employee, "state", "DEFAULT") \in DOMAIN tax_rates.state
  THEN Get(employee, "state", "DEFAULT")
  ELSE "DEFAULT"

\* the four taxes of _calculate_employee_payroll, given the annualized income
\* and the divisor of the period type
TaxesOfAnnualized(employee, taxable_income, annualized_income, periods) ==
  << [name |-> "Federal Income Tax",
      amount |-> CalculateProgressiveTax(annualized_income, tax_rates.federal,
                    Get(employee, "allowances", 0)) \div periods],
     [name |-> "State Income Tax",
      amount |-> CalculateProgressiveTax(annualized_income,
                    tax_rates.state[StateOfEmployee(employee)],
                    Get(employee, "allowances", 0)) \div periods],
     [name |-> "Social Security", amount |-> SocialSecurityTax(taxable_income)],
     [name |-> "Medicare", amount |-> MedicareTax(taxable_income, annualized_income)] >>

\* tax_breakdown of _calculate_employee_payroll
TaxBreakdown(employee, pay_period, taxable_income) ==
  TaxesOfAnnualized(employee, taxable_income,
                    taxable_income * PeriodDivisor(pay_period.period_type),
                    PeriodDivisor(pay_period.period_type))

\* the hours details a pay stub carries when pay_type is not salary
HourlyDetails(employee) ==
  [regular_hours |-> Get(employee, "hours_worked", 0),
   overtime_hours |-> Get(employee, "overtime_hours", 0),
   hourly_rate |-> Get(employee, "salary", 0),
   regular_pay |-> Get(employee, "salary", 0) * Get(employee, "hours_worked", 0) * Unit,
   overtime_pay |-> (Get(employee, "salary", 0) * 3
                       * Get(employee, "overtime_hours", 0) * Unit) \div 2]

\* pay_stub of _calculate_employee_payroll, given its parts
PayStub(employee, pay_period, gross_pay, ded, taxable_income, tax_breakdown, total_taxes) ==
  [employee_id |-> Get(employee, "id", ""),
   employee_name |-> Get(employee, "name", ""),
   pay_period |-> pay_period,
   gross_pay |-> gross_pay,
   pre_tax_deductions |-> ded.pre_tax_deductions,
   taxable_income |-> taxable_income,
   total_taxes |-> total_taxes,
   post_tax_deductions |-> ded.post_tax_deductions,
   net_pay |-> NetPay(gross_pay, ded.pre_tax_deductions, total_taxes,
                      ded.post_tax_deductions),
   tax_breakdown |-> tax_breakdown,
   deductions_breakdown |-> ded.deductions_breakdown]
  @@ (IF Lower(Get(employee, "pay_type", "")) # "salary"
      THEN HourlyDetails(employee)
      ELSE << >>)

\* _calculate_employee_payroll from the taxes on: total_taxes, net pay, pay stub
StubOfTaxes(employee, pay_period, gross_pay, ded, taxable_income, tax_breakdown) ==
  PayStub(employee, pay_period, gross_pay, ded, taxable_income, tax_breakdown,
          tax_breakdown[1].amount + tax_breakdown[2].amount
          + tax_breakdown[3].amount + tax_breakdown[4].amount)

\* _calculate_employee_payroll from the deductions on: taxable income, taxes
StubOfDeductions(employee, pay_period, gross_pay, ded) ==
  StubOfTaxes(employee, pay_period, gross_pay, ded,
              gross_pay - ded.pre_tax_deductions,
              TaxBreakdown(employee, pay_period, gross_pay - ded.pre_tax_deductions))

\* _calculate_employee_payroll from the gross pay on: the deductions loop
StubOfGross(employee, pay_period, gross_pay) ==
  StubOfDeductions(employee, pay_period, gross_pay,
    DeductionsLoop(gross_pay, Get(employee, "deductions", << >>), 1,
      [pre_tax_deductions |-> 0, post_tax_deductions |-> 0,
       deductions_breakdown |-> << >>]))

\* PayrollAgent._calculate_employee_payroll
CalculateEmployeePayroll(employee, pay_period) ==
  StubOfGross(employee, pay_period, GrossPay(employee, pay_period))

\* the loop of calculate_payroll from employee i on; a ValueError of
\* _calculate_employee_payroll, or the KeyError of reading a key the pay stub
\* does not have, ends the call
RECURSIVE PayrollLoop(_, _, _, _)
RECURSIVE PayrollStep(_, _, _, _, _)
\* the loop that catches the ValueError of a record and goes on to the next
\* record, returning a result without that employee
PayrollLoop_SkipFailed(employees, pay_period, i, payroll_results) ==
  IF i > Len(employees)
  THEN [status |-> "returned", payroll_results |-> payroll_results]
  ELSE IF GrossPayRaises(employees[i])
  THEN PayrollLoop(employees, pay_period, i + 1, payroll_results)
  ELSE PayrollStep(employees, pay_period, i, payroll_results,
                   CalculateEmployeePayroll(employees[i], pay_period))

PayrollLoop(employees, pay_period, i, payroll_results) ==
  IF i > Len(employees)
  THEN [status |-> "returned", payroll_results |-> payroll_results]
  ELSE IF GrossPayRaises(employees[i])
  THEN [status |-> "raised", error |-> "ValueError"]
  ELSE PayrollStep(employees, pay_period, i, payroll_results,
                   CalculateEmployeePayroll(employees[i], pay_period))

\* the body of the loop of calculate_payroll for employee i
PayrollStep(employees, pay_period, i, payroll_results, employee_result) ==
  IF "total_deductions" \notin DOMAIN employee_result
  THEN [status |-> "raised", error |-> "KeyError"]
  ELSE PayrollLoop(employees, pay_period, i + 1,
         [payroll_results EXCEPT
            !.employee_payments = Append(@, employee_result),
            !.total_gross = @ + employee_result.gross_pay,
            !.total_net = @ + employee_result.net_pay,
            !.total_taxes = @ + employee_result.total_taxes,
            !.total_deductions = @ + employee_result.total_deductions])

\* the key of a run in payroll_history: f"{start_date}_{end_date}"
PeriodKey(pay_period) == << pay_period.start_date, pay_period.end_date >>

\* the call of calculate_payroll up to its return or raise
RunPayroll(employees, pay_period) ==
  PayrollLoop(employees, pay_period, 1,
    [pay_period |-> pay_period, total_gross |-> 0, total_net |-> 0,
     total_taxes |-> 0, total_deductions |-> 0, employee_payments |-> << >>])

\* the loop of calculate_employer_taxes from payment i on
RECURSIVE EmployerTaxesLoop(_, _, _)
EmployerTaxesLoop(payments, i, employer_taxes) ==
  IF i > Len(payments) THEN employer_taxes
  ELSE LET taxable_income == Get(payments[i], "taxable_income", 0)
           state == Get(payments[i], "employee_state", "DEFAULT")
           social_security == Min(MulRate(taxable_income, tax_rates.social_security),
                                  MulRate((147000 * Unit) \div 26, tax_rates.social_security))
           medicare == MulRate(taxable_income, tax_rates.medicare)
           futa == MulRate(Min(taxable_income, (7000 * Unit) \div 26), tax_rates.futa)
           sui_rate == Get(tax_rates.sui, state, tax_rates.sui["DEFAULT"])
           sui == MulRate(Min(taxable_income, (7000 * Unit) \div 26), sui_rate)
       IN EmployerTaxesLoop(payments, i + 1,
            [employer_taxes EXCEPT !.social_security = @ + social_security,
                                   !.medicare = @ + medicare,
                                   !.futa = @ + futa,
                                   !.sui = @ + sui])

\* the total of calculate_employer_taxes
EmployerTaxesTotal(employer_taxes) ==
  [employer_taxes EXCEPT !.total = employer_taxes.social_security + employer_taxes.medicare
                                     + employer_taxes.futa + employer_taxes.sui]

\* PayrollAgent.calculate_employer_taxes
CalculateEmployerTaxes(payroll_data) ==
  EmployerTaxesTotal(
    EmployerTaxesLoop(Get(payroll_data, "employee_payments", << >>), 1,
      [social_security |-> 0, medicare |-> 0, futa |-> 0, sui |-> 0, total |-> 0]))

----
\* Dates of run_scheduled_payroll. A date string is represented by its day
\* number: day 1 is 2023-12-30, day 14 Friday 2024-01-12

\* the proleptic Gregorian ordinal of the day before day 1
DayZero == 738883

\* datetime.strptime(s, "%Y-%m-%d").date().toordinal()
ToOrdinal(date) == date + DayZero

IsLeap(year) == year % 4 = 0 /\ (year % 100 # 0 \/ year % 400 = 0)

\* calendar.monthrange(year, month)[1]
DaysInMonth(year, month) ==
  IF month = 2 THEN (IF IsLeap(year) THEN 29 ELSE 28)
  ELSE IF month \in {4, 6, 9, 11} THEN 30 ELSE 31

RECURSIVE DaysBeforeMonth(_, _)
DaysBeforeMonth(year, month) ==
  IF month = 1 THEN 0
  ELSE DaysBeforeMonth(year, month - 1) + DaysInMonth(year, month - 1)

\* the ordinal of January 1 of the year
FirstOfYear(year) ==
  (year - 1) * 365 + (year - 1) \div 4 - (year - 1) \div 100 + (year - 1) \div 400 + 1

\* year, month and day of an ordinal
OrdToYmd(ordinal) ==
  LET n400 == (ordinal - 1) \div 146097
      r400 == (ordinal - 1) % 146097
      n100 == r400 \div 36524
      r100 == r400 % 36524
      n4 == r100 \div 1461
      r4 == r100 % 1461
      n1 == r4 \div 365
      n == r4 % 365
      year == n400 * 400 + n100 * 100 + n4 * 4 + n1 + 1
  IN IF n1 = 4 \/ n100 = 4
     THEN [year |-> year - 1, month |-> 12, day |-> 31]
     ELSE LET month == CHOOSE m \in 1..12 :
                          /\ DaysBeforeMonth(year, m) <= n
                          /\ n < DaysBeforeMonth(year, m) + DaysInMonth(year, m)
          IN [year |-> year, month |-> month, day |-> n - DaysBeforeMonth(year, month) + 1]

\* date.year, date.month, date.day
YearOf(date) == OrdToYmd(ToOrdinal(date)).year
MonthOf(date) == OrdToYmd(ToOrdinal(date)).month
DayOf(date) == OrdToYmd(ToOrdinal(date)).day

\* date.weekday(): Monday is 0
Weekday(date) == (ToOrdinal(date) + 6) % 7

\* the ordinal of the Monday of ISO week 1 of the year
IsoWeek1Monday(year) ==
  LET firstweekday == (FirstOfYear(year) + 6) % 7
      week1monday == FirstOfYear(year) - firstweekday
  IN IF firstweekday > 3 THEN week1monday + 7 ELSE week1monday

\* date.isocalendar()[1]
IsoWeek(date) ==
  LET today == ToOrdinal(date)
      year == YearOf(date)
      week == (today - IsoWeek1Monday(year)) \div 7
  IN IF week < 0 THEN (today - IsoWeek1Monday(year - 1)) \div 7 + 1
     ELSE IF week >= 52 /\ today >= IsoWeek1Monday(year + 1) THEN 1
     ELSE week + 1

\* run_date + timedelta(days=(4 - run_date.weekday()) % 7)
NextFriday(run_date) == run_date + ((4 - Weekday(run_date)) % 7)

\* run_date.replace(day=d)
ReplaceDay(run_date, d) == run_date - DayOf(run_date) + d

\* the pay period run_scheduled_payroll formats
Scheduled(start_date, end_date, pay_date, period_type) ==
  [status |-> "scheduled",
   pay_period |-> [start_date |-> start_date, end_date |-> end_date,
                   pay_date |-> pay_date, period_type |-> period_type]]

\* the pay period of run_scheduled_payroll for the schedule and the run
\* date, or the status it returns without running the payroll
ScheduledPeriod(pay_schedule, run_date) ==
  CASE pay_schedule = "weekly" ->
         Scheduled(NextFriday(run_date) - 6, NextFriday(run_date),
                   NextFriday(run_date), "weekly")
    [] pay_schedule = "biweekly" ->
         IF IsoWeek(run_date) % 2 = 0
         THEN Scheduled(NextFriday(run_date) - 13, NextFriday(run_date),
                        NextFriday(run_date), "biweekly")
         ELSE [status |-> "skipped", message |-> "not a pay week"]
    [] pay_schedule = "semimonthly" ->
         IF DayOf(run_date) = 15
         THEN Scheduled(ReplaceDay(run_date, 1), run_date, run_date, "semimonthly")
         ELSE IF DayOf(run_date)
                   = DayOf(ReplaceDay(run_date, 1))
                     + DaysInMonth(YearOf(run_date), MonthOf(run_date)) - 1
         THEN Scheduled(ReplaceDay(run_date, 16), run_date, run_date, "semimonthly")
         ELSE [status |-> "skipped", message |-> "not a pay date"]
    [] pay_schedule = "monthly" ->
         IF DayOf(run_date) = DaysInMonth(YearOf(run_date), MonthOf(run_date))
         THEN Scheduled(ReplaceDay(run_date, 1), run_date, run_date, "monthly")
         ELSE [status |-> "skipped", message |-> "not a pay date"]
    [] OTHER -> [status |-> "error", message |-> "Invalid pay schedule"]

----
\* Inputs of the specifications

\* an employee record; hours are left out of a salaried record
Salaried(id, salary, state, allowances, deductions) ==
  [id |-> id, name |-> id, salary |-> salary, pay_type |-> "salary",
   state |-> state, allowances |-> allowances, deductions |-> deductions]

Hourly(id, rate, hours, overtime, state, allowances, deductions) ==
  [id |-> id, name |-> id, salary |-> rate, pay_type |-> "hourly",
   hours_worked |-> hours, overtime_hours |-> overtime,
   state |-> state, allowances |-> allowances, deductions |-> deductions]

\* the record without one of its keys
WithoutKey(record, key) == [k \in DOMAIN record \ {key} |-> record[k]]

\* the records: EMP010 has deduction kinds the catalog does not know, EMP011
\* no state, EMP012 an unknown pay_type, EMP013 negative hours, EMP014 a
\* negative salary, EMP015 a salary that is not a number and EMP016 negative
\* hours with a pre-tax percentage deduction
Employees ==
  { Salaried("EMP001", 75000, "CA", 2, << >>),
    Hourly("EMP002", 25, 80, 5, "NY", 1, << >>),
    Salaried("EMP003", 78000, "TX", 0, << >>),
    Hourly("EMP004", 20, 80, 5, "FL", 0, << >>),
    Salaried("EMP005", 240000, "NY", 0, << >>),
    Salaried("EMP006", 312000, "CA", 2, << <<"401k", 5>>, <<"health_insurance", 15000>> >>),
    Salaried("EMP007", 120000, "ZZ", 4,
             << <<"401k", 10>>, <<"health_insurance", 15000>>,
                <<"life_insurance", 2500>>, <<"charity", 5>> >>),
    Hourly("EMP008", 25, 0, 0, "CA", 0, << <<"health_insurance", 15000>> >>),
    Hourly("EMP009", 50, 40, 0, "DEFAULT", 2,
           << <<"fsa", 10000>>, <<"garnishment", 5000>>, <<"union_dues", 2500>> >>),
    Salaried("EMP010", 52000, "NY", 2,
             << <<"bonus_plan", 50>>, <<"401k", 5>>, <<"parking", 10000>> >>),
    WithoutKey(Salaried("EMP011", 65000, "", 1, << >>), "state"),
    [Hourly("EMP012", 30, 10, 0, "TX", 0, << >>) EXCEPT !.pay_type = "contractor"],
    Hourly("EMP013", 20, -5, 0, "FL", 0, << >>),
    Salaried("EMP014", -26000, "TX", 0, << >>),
    Salaried("EMP015", NotANumber, "CA", 0, << >>),
    Hourly("EMP016", 20, -10, 0, "FL", 0, << <<"401k", 50>> >>) }

PeriodTypes == {"weekly", "biweekly", "semimonthly", "monthly", "quarterly"}

\* dates are day numbers; the periods of the stubs, one for each period type
PayPeriods ==
  { [start_date |-> 1, end_date |-> 14, pay_date |-> 19, period_type |-> t] : t \in PeriodTypes }

\* the periods of the runs: two biweekly periods paid five days after their
\* end, and the first of them paid on its last day
RunPeriods ==
  { [start_date |-> 1, end_date |-> 14, pay_date |-> 19, period_type |-> "biweekly"],
    [start_date |-> 15, end_date |-> 28, pay_date |-> 33, period_type |-> "biweekly"],
    [start_date |-> 1, end_date |-> 14, pay_date |-> 14, period_type |-> "biweekly"] }

\* the record and period pairs whose amounts are whole numbers of units
\* (the semimonthly taxes of EMP002 are not)
StubInputs ==
  { in \in Employees \X PayPeriods :
      in[1].id # "EMP002" \/ in[2].period_type # "semimonthly" }

\* longest roster of a run
MaxRoster == 2

RECURSIVE SeqsUpTo(_, _)
SeqsUpTo(S, n) ==
  IF n = 0 THEN { << >> }
  ELSE LET shorter == SeqsUpTo(S, n - 1)
       IN shorter \cup { Append(q, x) : q \in { r \in shorter : Len(r) = n - 1 }, x \in S }

\* the records the rosters are made of: the two of the end-to-end scenario
\* and the one whose salary is not a number
RosterEmployees == { e \in Employees : e.id \in {"EMP001", "EMP002", "EMP015"} }

Rosters == SeqsUpTo(RosterEmployees, MaxRoster)

EmployeeById(id) == CHOOSE e \in Employees : e.id = id

\* a run result assembled from the pay stubs of a roster
AssembledRun(employees, pay_period) ==
  [pay_period |-> pay_period,
   employee_payments |->
     [i \in 1..Len(employees) |-> CalculateEmployeePayroll(employees[i], pay_period)]]

\* the rosters whose stubs calculate_employer_taxes is given: none, a CA, a
\* TX and a NY employee, one with negative taxable income, and two together
TaxedRosters ==
  { << >>, << EmployeeById("EMP001") >>, << EmployeeById("EMP003") >>,
    << EmployeeById("EMP005") >>, << EmployeeById("EMP008") >>,
    << EmployeeById("EMP001"), EmployeeById("EMP005") >> }

TaxedRuns == { AssembledRun(r, p) : r \in TaxedRosters, p \in PayPeriods }

\* the companies of the scheduled runs
Companies ==
  { [pay_schedule |-> "biweekly", employees |-> << >>],
    [pay_schedule |-> "biweekly", employees |-> << EmployeeById("EMP001") >>],
    [pay_schedule |-> "monthly", employees |-> << >>],
    [pay_schedule |-> "daily", employees |-> << >>] }

\* the schedule dates: Monday 2024-01-08 of ISO week 2 and Monday
\* 2024-01-15 of ISO week 3
ScheduleDates == { 10, 17 }

\* a date argument that is not given
None == 1 - Inf

\* datetime.date.min and datetime.date.max
DateMin == 1 - DayZero
DateMax == 3652059 - DayZero

\* the bounds of the history queries: none, the first day of the two
\* periods of the runs and the day after; none, and the days around the
\* start of the second period
HistoryStarts == { None, 1, 15, 16 }
HistoryEnds == { None, 1, 14, 15 }

----
\* The agent

\* payroll_history is the history of the PayrollAgent, LeaveManagementTools
\* the class attributes of the leave management tools, call the last call
\* and ret what it returned
VARIABLES payroll_history, call, ret, LeaveManagementTools

vars == << payroll_history, call, ret, LeaveManagementTools >>

\* the class attributes of LeaveManagementTools as the class body sets them
LeaveStorage ==
  [leave_balances |-> << >>,
   leave_requests |-> << >>,
   leave_history |-> << >>,
   leave_request_counter |-> 1000]

\* PayrollAgent.__init__
Init ==
  /\ payroll_history = << >>
  /\ call = [op |-> "init"]
  /\ ret = [status |-> "none"]
  /\ LeaveManagementTools = LeaveStorage

\* payroll_history[period_key] = payroll_results
HistoryPut(history, period_key, payroll_results) ==
  [k \in DOMAIN history \cup {period_key} |->
     IF k = period_key THEN payroll_results ELSE history[k]]

\* the end of calculate_payroll: the history write and the return, or the raise
EndOfRun(pay_period, run) ==
  IF run.status = "returned"
  THEN /\ payroll_history' = HistoryPut(payroll_history, PeriodKey(pay_period),
                                        run.payroll_results)
       /\ ret' = [status |-> "returned", value |-> run.payroll_results]
  ELSE /\ payroll_history' = payroll_history
       /\ ret' = [status |-> "raised", error |-> run.error]

\* PayrollAgent.calculate_payroll(employees, pay_period)
CalculatePayroll(employees, pay_period) ==
  /\ call' = [op |-> "calculate_payroll", employees |-> employees,
              pay_period |-> pay_period]
  /\ EndOfRun(pay_period, RunPayroll(employees, pay_period))
  /\ UNCHANGED LeaveManagementTools

\* PayrollAgent._calculate_employee_payroll(employee, pay_period)
EmployeePayroll(employee, pay_period) ==
  /\ call' = [op |-> "_calculate_employee_payroll", employee |-> employee,
              pay_period |-> pay_period]
  /\ ret' = IF GrossPayRaises(employee)
             THEN [status |-> "raised", error |-> "ValueError"]
             ELSE [status |-> "returned",
                   value |-> CalculateEmployeePayroll(employee, pay_period)]
  /\ UNCHANGED << payroll_history, LeaveManagementTools >>

\* PayrollAgent.calculate_employer_taxes(payroll_data)
EmployerTaxes(payroll_data) ==
  /\ call' = [op |-> "calculate_employer_taxes", payroll_data |-> payroll_data]
  /\ ret' = [status |-> "returned", value |-> CalculateEmployerTaxes(payroll_data)]
  /\ UNCHANGED << payroll_history, LeaveManagementTools >>

\* payroll_results["employer_taxes"] = employer_taxes
SetEmployerTaxes(payroll_results, employer_taxes) ==
  [k \in DOMAIN payroll_results \cup {"employer_taxes"} |->
     IF k = "employer_taxes" THEN employer_taxes ELSE payroll_results[k]]

\* the end of the try block of run_scheduled_payroll: the result, which is
\* the object calculate_payroll put into payroll_history, gets the employer
\* taxes and is returned
ScheduledSuccess(pay_period, payroll_data) ==
  /\ payroll_history' = HistoryPut(payroll_history, PeriodKey(pay_period), payroll_data)
  /\ ret' = [status |-> "returned",
             value |-> [status |-> "success", message |-> "Payroll processed",
                        payroll_data |-> payroll_data]]

\* the try block storing an empty result in payroll_history when its
\* calculate_payroll raised
ScheduledRun_StoreOnError(pay_period, run) ==
  IF run.status = "raised"
  THEN /\ ret' = [status |-> "returned",
                  value |-> [status |-> "error", message |-> run.error]]
       /\ payroll_history' = HistoryPut(payroll_history, PeriodKey(pay_period),
                                        RunPayroll(<< >>, pay_period).payroll_results)
  ELSE ScheduledSuccess(pay_period,
         SetEmployerTaxes(run.payroll_results,
                          CalculateEmployerTaxes(run.payroll_results)))

\* the try block of run_scheduled_payroll, given the outcome of its
\* calculate_payroll
ScheduledRun(pay_period, run) ==
  IF run.status = "raised"
  THEN /\ ret' = [status |-> "returned",
                  value |-> [status |-> "error", message |-> run.error]]
       /\ UNCHANGED payroll_history
  ELSE ScheduledSuccess(pay_period,
         SetEmployerTaxes(run.payroll_results,
                          CalculateEmployerTaxes(run.payroll_results)))

\* run_scheduled_payroll from the pay period on
ScheduledEnd(company_data, scheduled) ==
  IF scheduled.status = "scheduled"
  THEN ScheduledRun(scheduled.pay_period,
                    RunPayroll(Get(company_data, "employees", << >>),
                               scheduled.pay_period))
  ELSE /\ ret' = [status |-> "returned", value |-> scheduled]
       /\ UNCHANGED payroll_history

\* PayrollAgent.run_scheduled_payroll(company_data, schedule_date)
RunScheduledPayroll(company_data, schedule_date) ==
  /\ call' = [op |-> "run_scheduled_payroll", company_data |-> company_data,
              schedule_date |-> schedule_date]
  /\ ScheduledEnd(company_data,
                  ScheduledPeriod(Get(company_data, "pay_schedule", "biweekly"),
                                  schedule_date))
  /\ UNCHANGED LeaveManagementTools

\* the entries of the history whose period starts before the start date
\* given, or on it
FilteredHistory_UpToStart(history, start_date, end_date) ==
  IF start_date # None \/ end_date # None
  THEN LET start == IF start_date # None THEN start_date ELSE DateMin
           end == IF end_date # None THEN end_date ELSE DateMax
           kept == { k \in DOMAIN history :
                       history[k].pay_period.start_date <= start }
       IN [k \in kept |-> history[k]]
  ELSE history

\* filtered_history of get_payroll_history: the entries whose period starts
\* within the bounds given
FilteredHistory(history, start_date, end_date) ==
  IF start_date # None \/ end_date # None
  THEN LET start == IF start_date # None THEN start_date ELSE DateMin
           end == IF end_date # None THEN end_date ELSE DateMax
           kept == { k \in DOMAIN history :
                       /\ start <= history[k].pay_period.start_date
                       /\ history[k].pay_period.start_date <= end }
       IN [k \in kept |-> history[k]]
  ELSE history

\* the record get_payroll_history formats for an entry of the history
HistoryRecord(payroll_data) ==
  [period |-> [start_date |-> payroll_data.pay_period.start_date,
               end_date |-> payroll_data.pay_period.end_date,
               pay_date |-> payroll_data.pay_period.pay_date,
               type |-> payroll_data.pay_period.period_type],
   totals |-> [employees |-> Len(Get(payroll_data, "employee_payments", << >>)),
               gross |-> Get(payroll_data, "total_gross", 0),
               net |-> Get(payroll_data, "total_net", 0)]]

\* the response of get_payroll_history; the history of the model has no
\* insertion order, so the records are a set, and the message is the number
\* it reports
HistoryResponse(history, filtered_history) ==
  IF DOMAIN history = {}
  THEN [status |-> "success", message |-> "No payroll history found", records |-> {}]
  ELSE [status |-> "success",
        message |-> Cardinality(DOMAIN filtered_history),
        records |-> { HistoryRecord(filtered_history[k]) : k \in DOMAIN filtered_history }]

\* PayrollAgent.get_payroll_history(start_date, end_date)
GetPayrollHistory(start_date, end_date) ==
  /\ call' = [op |-> "get_payroll_history", start_date |-> start_date,
              end_date |-> end_date]
  /\ ret' = [status |-> "returned",
             value |-> HistoryResponse(payroll_history,
                         FilteredHistory(payroll_history, start_date, end_date))]
  /\ UNCHANGED << payroll_history, LeaveManagementTools >>

\* the values of a function
Range(f) == { f[k] : k \in DOMAIN f }

Next ==
  \/ \E employees \in Rosters, pay_period \in RunPeriods :
       CalculatePayroll(employees, pay_period)
  \/ \E in \in StubInputs : EmployeePayroll(in[1], in[2])
  \/ \E payroll_data \in TaxedRuns \cup Range(payroll_history) :
       EmployerTaxes(payroll_data)
  \/ \E company_data \in Companies, schedule_date \in ScheduleDates :
       RunScheduledPayroll(company_data, schedule_date)
  \/ \E start_date \in HistoryStarts, end_date \in HistoryEnds :
       GetPayrollHistory(start_date, end_date)

Spec == Init /\ [][Next]_vars

----
\* The progressive tax function on its own

\* most allowances of a call
MaxAllowances == 2
\* most brackets of a drawn table
MaxBrackets == 3

\* the sequence of the elements of a set of numbers in ascending order
RECURSIVE Ascending(_)
Ascending(S) ==
  IF S = {} THEN << >>
  ELSE LET m == CHOOSE x \in S : \A y \in S : x <= y
       IN << m >> \o Ascending(S \ {m})

\* bracket tables with strictly increasing bounds ending in an unbounded bracket
BoundGrid == { 10000 * Unit, 30000 * Unit, 60000 * Unit }
RateGrid == { 0, 1000, 2500 }
DrawnTables ==
  UNION { LET bounds == Ascending(B) \o << Inf >>
          IN { [i \in 1..Len(bounds) |-> [bracket |-> bounds[i], rate |-> rates[i]]] :
                 rates \in [1..Len(bounds) -> RateGrid] } :
          B \in { C \in SUBSET BoundGrid : Cardinality(C) < MaxBrackets } }

\* the tables of the agent by name, bounds in units of 1/u dollar
AgentTableNames == {"federal", "CA", "NY", "TX", "FL", "DEFAULT"}
AgentTable(name, u) ==
  IF name = "federal" THEN TaxRates(u).federal ELSE TaxRates(u).state[name]

\* incomes in dollars: the bracket bounds, the allowance values and points between
DrawnIncomes == { 0, 5000, 10000, 20000, 30000, 45000, 60000, 100000 }
AgentIncomes == { 0, 4050, 8100, 10000, 12000, 25000, 40000, 50000, 70000, 85000,
                  100000, 165000, 200000, 210000, 340000 }
TopIncomes == { 0, 10000, 40000, 100000, 210000, 400000, 530000, 531000, 700000 }

TaxInput(table, brackets, allowances, a, b) ==
  [op |-> "input", table |-> table, brackets |-> brackets,
   allowances |-> allowances, incomes |-> << a, b >>]

TaxInputs ==
  { TaxInput("drawn", t, n, a * Unit, b * Unit) :
      t \in DrawnTables, n \in 0..MaxAllowances, a \in DrawnIncomes, b \in DrawnIncomes }
  \cup
  { TaxInput(name, AgentTable(name, Unit), n, a * Unit, b * Unit) :
      name \in AgentTableNames, n \in 0..MaxAllowances, a \in AgentIncomes, b \in AgentIncomes }
  \cup
  { TaxInput(name, AgentTable(name, CoarseUnit), 0, a * CoarseUnit, b * CoarseUnit) :
      name \in AgentTableNames, a \in TopIncomes, b \in TopIncomes }

InitTax ==
  /\ payroll_history = << >>
  /\ call \in TaxInputs
  /\ ret = [status |-> "none"]
  /\ LeaveManagementTools = LeaveStorage

\* PayrollAgent._calculate_progressive_tax(income, brackets, allowances),
\* called for each of the two incomes drawn
ProgressiveTax ==
  /\ call.op = "input"
  /\ call' = [call EXCEPT !.op = "_calculate_progressive_tax"]
  /\ ret' = [status |-> "returned",
             value |-> << CalculateProgressiveTax(call.incomes[1], call.brackets, call.allowances),
                          CalculateProgressiveTax(call.incomes[2], call.brackets, call.allowances) >>]
  /\ UNCHANGED << payroll_history, LeaveManagementTools >>

NextTax == ProgressiveTax

TaxSpec == InitTax /\ [][NextTax]_vars

----
\* Concurrent runs of calculate_payroll on one agent. call[t] is the call of
\* thread t and ret[t] its frame: the position in the function, the loop
\* index and the local payroll_results, and at the end the outcome

\* the threads running calculate_payroll
MaxThreads == 2
Threads == 1..MaxThreads

\* the period of thread t: the periods of the threads are consecutive
\* fortnights, so their (start_date, end_date) are distinct
ThreadPeriod(t) ==
  [start_date |-> 14 * (t - 1) + 1, end_date |-> 14 * t, pay_date |-> 14 * t + 5,
   period_type |-> "biweekly"]

\* the rosters of the threads
ThreadRosters ==
  { << >>, << EmployeeById("EMP001") >>, << EmployeeById("EMP002") >>,
    << EmployeeById("EMP015"), EmployeeById("EMP001") >> }

InitConc ==
  /\ payroll_history = << >>
  /\ \E rosters \in [Threads -> ThreadRosters] :
        call = [t \in Threads |->
                  [op |-> "calculate_payroll", employees |-> rosters[t],
                   pay_period |-> ThreadPeriod(t)]]
  /\ ret = [t \in Threads |-> [pc |-> "start"]]
  /\ LeaveManagementTools = LeaveStorage

\* thread t creates its local payroll_results
RunBegin(t) ==
  /\ ret[t].pc = "start"
  /\ ret' = [ret EXCEPT ![t] =
               [pc |-> "loop", i |-> 1,
                payroll_results |->
                  [pay_period |-> call[t].pay_period, total_gross |-> 0,
                   total_net |-> 0, total_taxes |-> 0, total_deductions |-> 0,
                   employee_payments |-> << >>]]]
  /\ UNCHANGED << payroll_history, call, LeaveManagementTools >>

\* the frame of a thread after the loop body for employee i, given the
\* outcome of the body
AfterBody(frame, body) ==
  IF body.status = "raised"
  THEN [pc |-> "done", status |-> "raised", error |-> body.error]
  ELSE [frame EXCEPT !.i = @ + 1, !.payroll_results = body.payroll_results]

\* thread t runs the loop body for its next employee
RunLoopStep(t) ==
  /\ ret[t].pc = "loop"
  /\ ret[t].i <= Len(call[t].employees)
  /\ ret' = [ret EXCEPT ![t] =
               AfterBody(ret[t],
                         PayrollLoop(<< call[t].employees[ret[t].i] >>,
                                     call[t].pay_period, 1, ret[t].payroll_results))]
  /\ UNCHANGED << payroll_history, call, LeaveManagementTools >>

\* thread t writes its result into payroll_history
RunStore(t) ==
  /\ ret[t].pc = "loop"
  /\ ret[t].i > Len(call[t].employees)
  /\ payroll_history' = HistoryPut(payroll_history, PeriodKey(call[t].pay_period),
                                   ret[t].payroll_results)
  /\ ret' = [ret EXCEPT ![t].pc = "return"]
  /\ UNCHANGED << call, LeaveManagementTools >>

\* thread t returns its result
RunReturn(t) ==
  /\ ret[t].pc = "return"
  /\ ret' = [ret EXCEPT ![t] =
               [pc |-> "done", status |-> "returned", value |-> ret[t].payroll_results]]
  /\ UNCHANGED << payroll_history, call, LeaveManagementTools >>

NextConc ==
  \E t \in Threads : RunBegin(t) \/ RunLoopStep(t) \/ RunStore(t) \/ RunReturn(t)

ConcSpec == InitConc /\ [][NextConc]_vars

----
\* run_scheduled_payroll on one schedule date for a new agent

\* the schedule dates: every day from 2024-01-01 to 2024-04-30 (months of
\* 31, 29, 31 and 30 days) and every day of February 2025 (28 days)
CalendarDates == (3..123) \cup (400..427)

\* the companies of the semimonthly and the monthly schedule: without
\* employees, and with the salaried employee of the end-to-end scenario
CalendarCompanies ==
  { [pay_schedule |-> "semimonthly", employees |-> << >>],
    [pay_schedule |-> "semimonthly", employees |-> << EmployeeById("EMP001") >>],
    [pay_schedule |-> "monthly", employees |-> << >>] }

ScheduleInputs ==
  { [op |-> "input", company_data |-> c, schedule_date |-> d] :
      c \in CalendarCompanies, d \in CalendarDates }

InitSchedule ==
  /\ payroll_history = << >>
  /\ call \in ScheduleInputs
  /\ ret = [status |-> "none"]
  /\ LeaveManagementTools = LeaveStorage

\* PayrollAgent.run_scheduled_payroll on the input drawn
ScheduledPayroll ==
  /\ call.op = "input"
  /\ RunScheduledPayroll(call.company_data, call.schedule_date)

NextSchedule == ScheduledPayroll

ScheduleSpec == InitSchedule /\ [][NextSchedule]_vars

----
\* Successive calls of run_scheduled_payroll under the biweekly schedule

\* the schedule dates: Saturday 2024-01-06 (ISO week 1) to Sunday
\* 2024-01-28 (ISO week 4)
BiweeklyDates == 8..30

BiweeklyCompany == [pay_schedule |-> "biweekly", employees |-> << >>]

NextBiweekly ==
  \E schedule_date \in BiweeklyDates :
     RunScheduledPayroll(BiweeklyCompany, schedule_date)

BiweeklySpec == Init /\ [][NextBiweekly]_vars

----
\* The leave management tools. Days are counted in half days, a half-day
\* leave being 0.5 day; the timestamps the tools write are not modelled.

\* one day, in half days
Day == 1 + 1

\* the vacation days of initialize_employee_leave_balance
VacationDays(tenure_years) ==
  IF tenure_years < 3 THEN 15
  ELSE IF tenure_years < 6 THEN 20
  ELSE 25

\* the balance of a leave type of a new employee
NewBalance(days) ==
  [total |-> days * Day, used |-> 0, remaining |-> days * Day, pending |-> 0]

\* the record initialize_employee_leave_balance stores
BalanceRecord(employee_id, employee_name, tenure_years) ==
  [employee_id |-> employee_id,
   employee_name |-> employee_name,
   tenure_years |-> tenure_years,
   balances |-> [vacation |-> NewBalance(VacationDays(tenure_years)),
                 sick |-> NewBalance(12),
                 personal |-> NewBalance(5),
                 bereavement |-> NewBalance(5)]]

\* leave_balances[employee_id] = record
BalancePut(leave_balances, employee_id, record) ==
  [k \in DOMAIN leave_balances \cup {employee_id} |->
     IF k = employee_id THEN record ELSE leave_balances[k]]

\* num_days of submit_leave_request: half a day, or the weekdays from start
\* to end
NumDays(start_date, end_date, half_day) ==
  IF half_day THEN 1
  ELSE Day * Cardinality({ d \in start_date..end_date : Weekday(d) < 5 })

\* the employee has a balance of the leave type
HasBalance(leave_balances, employee_id, leave_type) ==
  /\ employee_id \in DOMAIN leave_balances
  /\ leave_type \in DOMAIN leave_balances[employee_id].balances

\* the balance of the leave type of the employee changed by the amounts
\* given, when the employee has one
BalanceAdd(leave_balances, employee_id, leave_type, used, remaining, pending) ==
  IF HasBalance(leave_balances, employee_id, leave_type)
  THEN [leave_balances EXCEPT
          ![employee_id].balances[leave_type] =
             [total |-> @.total,
              used |-> @.used + used,
              remaining |-> @.remaining + remaining,
              pending |-> @.pending + pending]]
  ELSE leave_balances

\* f"LR-{counter}"
RequestId(counter) == << "LR", counter >>

\* the position in leave_requests of the first request with the id, or 0
RECURSIVE FindRequest(_, _, _)
FindRequest(leave_requests, request_id, i) ==
  IF i > Len(leave_requests) THEN 0
  ELSE IF leave_requests[i].request_id = request_id THEN i
  ELSE FindRequest(leave_requests, request_id, i + 1)

\* LeaveManagementTools.initialize_employee_leave_balance
InitializeEmployeeLeaveBalance(employee_id, employee_name, tenure_years) ==
  /\ call' = [op |-> "initialize_employee_leave_balance", employee_id |-> employee_id,
              employee_name |-> employee_name, tenure_years |-> tenure_years]
  /\ LeaveManagementTools' =
       [LeaveManagementTools EXCEPT
          !.leave_balances =
             BalancePut(@, employee_id,
                        BalanceRecord(employee_id, employee_name, tenure_years))]
  /\ ret' = [status |-> "returned",
             value |-> [success |-> TRUE,
                        data |-> BalanceRecord(employee_id, employee_name, tenure_years)]]
  /\ UNCHANGED payroll_history

\* the leave request submit_leave_request creates
LeaveRequest(request_id, employee_id, employee_name, leave_type, start_date, end_date, num_days, reason, half_day) ==
  [request_id |-> request_id,
   employee_id |-> employee_id,
   employee_name |-> employee_name,
   leave_type |-> leave_type,
   start_date |-> start_date,
   end_date |-> end_date,
   num_days |-> num_days,
   half_day |-> half_day,
   reason |-> reason,
   status |-> "pending",
   approved_by |-> "None",
   comments |-> "None"]

\* submit_leave_request once the balance check has passed
SubmitAccepted(leave_request) ==
  /\ LeaveManagementTools' =
       [LeaveManagementTools EXCEPT
          !.leave_request_counter = @ + 1,
          !.leave_requests = Append(@, leave_request),
          !.leave_balances =
             BalanceAdd(@, leave_request.employee_id, leave_request.leave_type,
                        0, 0, leave_request.num_days)]
  /\ ret' = [status |-> "returned",
             value |-> [success |-> TRUE, data |-> leave_request]]

\* most leave requests submitted
MaxRequests == 2

\* LeaveManagementTools.submit_leave_request
SubmitLeaveRequest(employee_id, employee_name, leave_type, start_date, end_date, reason, half_day) ==
  /\ LeaveManagementTools.leave_request_counter < 1000 + MaxRequests
  /\ call' = [op |-> "submit_leave_request", employee_id |-> employee_id,
              employee_name |-> employee_name, leave_type |-> leave_type,
              start_date |-> start_date, end_date |-> end_date,
              reason |-> reason, half_day |-> half_day]
  /\ IF /\ HasBalance(LeaveManagementTools.leave_balances, employee_id, leave_type)
        /\ LeaveManagementTools.leave_balances[employee_id].balances[leave_type].remaining
             < NumDays(start_date, end_date, half_day)
     THEN /\ ret' = [status |-> "returned",
                     value |-> [success |-> FALSE, error |-> "Insufficient leave balance"]]
          /\ UNCHANGED LeaveManagementTools
     ELSE SubmitAccepted(
            LeaveRequest(RequestId(LeaveManagementTools.leave_request_counter),
                         employee_id, employee_name, leave_type, start_date, end_date,
                         NumDays(start_date, end_date, half_day), reason, half_day))
  /\ UNCHANGED payroll_history

\* a call that fails: the storage is left as it is
LeaveFailure(error) ==
  /\ ret' = [status |-> "returned", value |-> [success |-> FALSE, error |-> error]]
  /\ UNCHANGED LeaveManagementTools

\* approve_leave_request on the pending request at position i
ApprovePending(i, request) ==
  /\ LeaveManagementTools' =
       [LeaveManagementTools EXCEPT
          !.leave_requests[i] = request,
          !.leave_balances =
             BalanceAdd(@, request.employee_id, request.leave_type,
                        request.num_days, 0 - request.num_days, 0 - request.num_days),
          !.leave_history = Append(@, request @@ [action |-> "approved"])]
  /\ ret' = [status |-> "returned", value |-> [success |-> TRUE, data |-> request]]

\* approve_leave_request that approves a request whatever its status
ApproveFound_AnyStatus(i, approver_name, comments) ==
  ApprovePending(i, [LeaveManagementTools.leave_requests[i] EXCEPT
                       !.status = "approved",
                       !.approved_by = approver_name,
                       !.comments = comments])

\* approve_leave_request on the request found at position i
ApproveFound(i, approver_name, comments) ==
  IF LeaveManagementTools.leave_requests[i].status # "pending"
  THEN LeaveFailure("already decided")
  ELSE ApprovePending(i, [LeaveManagementTools.leave_requests[i] EXCEPT
                            !.status = "approved",
                            !.approved_by = approver_name,
                            !.comments = comments])

\* LeaveManagementTools.approve_leave_request
ApproveLeaveRequest(request_id, approver_name, comments) ==
  /\ call' = [op |-> "approve_leave_request", request_id |-> request_id,
              approver_name |-> approver_name, comments |-> comments]
  /\ IF FindRequest(LeaveManagementTools.leave_requests, request_id, 1) = 0
     THEN LeaveFailure("not found")
     ELSE ApproveFound(FindRequest(LeaveManagementTools.leave_requests, request_id, 1),
                       approver_name, comments)
  /\ UNCHANGED payroll_history

\* reject_leave_request on the pending request at position i
RejectPending(i, request) ==
  /\ LeaveManagementTools' =
       [LeaveManagementTools EXCEPT
          !.leave_requests[i] = request,
          !.leave_balances =
             BalanceAdd(@, request.employee_id, request.leave_type,
                        0, 0, 0 - request.num_days),
          !.leave_history = Append(@, request @@ [action |-> "rejected"])]
  /\ ret' = [status |-> "returned", value |-> [success |-> TRUE, data |-> request]]

\* LeaveManagementTools.reject_leave_request
RejectLeaveRequest(request_id, approver_name, reason) ==
  /\ call' = [op |-> "reject_leave_request", request_id |-> request_id,
              approver_name |-> approver_name, reason |-> reason]
  /\ IF FindRequest(LeaveManagementTools.leave_requests, request_id, 1) = 0
     THEN LeaveFailure("not found")
     ELSE IF LeaveManagementTools.leave_requests[
               FindRequest(LeaveManagementTools.leave_requests, request_id, 1)].status
               # "pending"
     THEN LeaveFailure("already decided")
     ELSE RejectPending(
            FindRequest(LeaveManagementTools.leave_requests, request_id, 1),
            [LeaveManagementTools.leave_requests[
               FindRequest(LeaveManagementTools.leave_requests, request_id, 1)] EXCEPT
               !.status = "rejected",
               !.approved_by = approver_name,
               !.comments = reason])
  /\ UNCHANGED payroll_history

\* cancel_leave_request on the employee's own pending or approved request at
\* position i
CancelOwn(i, request) ==
  /\ LeaveManagementTools' =
       [LeaveManagementTools EXCEPT
          !.leave_requests[i] =
             [request EXCEPT !.status = "cancelled",
                             !.comments = "Cancelled by employee"],
          !.leave_balances =
             IF request.status = "pending"
             THEN BalanceAdd(@, request.employee_id, request.leave_type,
                             0, 0, 0 - request.num_days)
             ELSE BalanceAdd(@, request.employee_id, request.leave_type,
                             0 - request.num_days, request.num_days, 0)]
  /\ ret' = [status |-> "returned",
             value |-> [success |-> TRUE,
                        data |-> [request EXCEPT !.status = "cancelled",
                                                 !.comments = "Cancelled by employee"]]]

\* cancel_leave_request on the request found at position i
CancelFound(i, request, employee_id) ==
  IF request.employee_id # employee_id
  THEN LeaveFailure("not your own request")
  ELSE IF request.status \notin {"pending", "approved"}
  THEN LeaveFailure("cannot cancel")
  ELSE CancelOwn(i, request)

\* LeaveManagementTools.cancel_leave_request
CancelLeaveRequest(request_id, employee_id) ==
  /\ call' = [op |-> "cancel_leave_request", request_id |-> request_id,
              employee_id |-> employee_id]
  /\ IF FindRequest(LeaveManagementTools.leave_requests, request_id, 1) = 0
     THEN LeaveFailure("not found")
     ELSE CancelFound(
            FindRequest(LeaveManagementTools.leave_requests, request_id, 1),
            LeaveManagementTools.leave_requests[
              FindRequest(LeaveManagementTools.leave_requests, request_id, 1)],
            employee_id)
  /\ UNCHANGED payroll_history

\* the employee whose leave is managed, and the employees who ask for a
\* cancellation
LeaveEmployees == { "E1" }
CancelEmployees == { "E1", "E2" }

\* the tenure given when a balance is initialized among other calls
Tenures == { 0 }

\* the tenures of an employee initialized first: the lowest and the highest
\* vacation allocation
InitialTenures == { 0, 6 }

\* the leaves asked for, <<leave_type, start_date, end_date, half_day>>: the
\* ten weekdays from Monday 2024-01-08 to Friday 2024-01-19 as vacation, and
\* half of Wednesday 2024-01-10 as unpaid leave, a type without balance
LeavesAsked ==
  { << "vacation", 10, 21, FALSE >>,
    << "unpaid", 12, 12, TRUE >> }

\* the request ids of the calls: those given out and the next one
RequestIds == { RequestId(n) : n \in 1000..(1000 + MaxRequests) }

NextLeave ==
  \/ \E employee_id \in LeaveEmployees, tenure_years \in Tenures :
       InitializeEmployeeLeaveBalance(employee_id, employee_id, tenure_years)
  \/ \E employee_id \in LeaveEmployees, leave \in LeavesAsked :
       SubmitLeaveRequest(employee_id, employee_id, leave[1], leave[2], leave[3],
                          "", leave[4])
  \/ \E request_id \in RequestIds : ApproveLeaveRequest(request_id, "M1", "")
  \/ \E request_id \in RequestIds : RejectLeaveRequest(request_id, "M1", "")
  \/ \E request_id \in RequestIds, employee_id \in CancelEmployees :
       CancelLeaveRequest(request_id, employee_id)

LeaveSpec == Init /\ [][NextLeave]_vars

----
\* The leave management tools for an employee whose balance was initialized
\* before any request was submitted, and is not initialized again

InitInitialized ==
  /\ payroll_history = << >>
  /\ \E employee_id \in LeaveEmployees, tenure_years \in InitialTenures :
        /\ call = [op |-> "initialize_employee_leave_balance",
                   employee_id |-> employee_id, employee_name |-> employee_id,
                   tenure_years |-> tenure_years]
        /\ ret = [status |-> "returned",
                  value |-> [success |-> TRUE,
                             data |-> BalanceRecord(employee_id, employee_id, tenure_years)]]
        /\ LeaveManagementTools =
             [LeaveStorage EXCEPT
                !.leave_balances =
                   BalancePut(@, employee_id,
                              BalanceRecord(employee_id, employee_id, tenure_years))]

NextInitialized ==
  \/ \E employee_id \in LeaveEmployees, leave \in LeavesAsked :
       SubmitLeaveRequest(employee_id, employee_id, leave[1], leave[2], leave[3],
                          "", leave[4])
  \/ \E request_id \in RequestIds : ApproveLeaveRequest(request_id, "M1", "")
  \/ \E request_id \in RequestIds : RejectLeaveRequest(request_id, "M1", "")
  \/ \E request_id \in RequestIds, employee_id \in CancelEmployees :
       CancelLeaveRequest(request_id, employee_id)

InitializedSpec == InitInitialized /\ [][NextInitialized]_vars

----
\* Properties of calculate_payroll and _calculate_employee_payroll (Spec)

RECURSIVE SumOver(_, _)
\* the sum of f[i] over the sequence f
SumOver(f, i) == IF i > Len(f) THEN 0 ELSE f[i] + SumOver(f, i + 1)

IsRun == call.op = "calculate_payroll"
IsStubCall == call.op = "_calculate_employee_payroll"
\* a call of _calculate_employee_payroll that returned a pay stub
IsStub == IsStubCall /\ ret.status = "returned"

\* the four amounts of a pay stub's tax_breakdown
TaxAmounts(stub) == [i \in 1..Len(stub.tax_breakdown) |-> stub.tax_breakdown[i].amount]
FederalOf(stub) == stub.tax_breakdown[1].amount
StateOf(stub) == stub.tax_breakdown[2].amount
SocialSecurityOf(stub) == stub.tax_breakdown[3].amount
MedicareOf(stub) == stub.tax_breakdown[4].amount

\* a roster all of whose records have numeric pay fields
NumericRoster(employees) ==
  \A i \in 1..Len(employees) : ~GrossPayRaises(employees[i])

\* C1: a run on a non-empty roster completes without raising and returns
\* aggregates with total_gross - total_taxes - total_deductions = total_net,
\* total_deductions being the sum of the stubs' pre-tax plus post-tax deductions
C1_RunAggregatesConsistent ==
  (IsRun /\ Len(call.employees) > 0 /\ NumericRoster(call.employees)) =>
     /\ ret.status = "returned"
     /\ ret.value.total_gross - ret.value.total_taxes - ret.value.total_deductions
          = ret.value.total_net
     /\ ret.value.total_deductions
          = SumOver([i \in 1..Len(ret.value.employee_payments) |->
                       ret.value.employee_payments[i].pre_tax_deductions
                       + ret.value.employee_payments[i].post_tax_deductions], 1)

\* C2: in every pay stub pre_tax_deductions + post_tax_deductions + net_pay
\* = gross_pay - total_taxes, total_taxes being the sum of the four
\* tax_breakdown amounts
C2_DeductionRoundTrip ==
  IsStub =>
     /\ ret.value.total_taxes = SumOver(TaxAmounts(ret.value), 1)
     /\ Len(ret.value.tax_breakdown) = 4
     /\ ret.value.pre_tax_deductions + ret.value.post_tax_deductions + ret.value.net_pay
          = ret.value.gross_pay - SumOver(TaxAmounts(ret.value), 1)

\* a stub with pre-tax and post-tax deductions and taxes
C2_Witness ==
  /\ IsStub
  /\ ret.value.pre_tax_deductions > 0
  /\ ret.value.post_tax_deductions > 0
  /\ ret.value.total_taxes > 0
  /\ ret.value.net_pay > 0

\* C3: whenever calculate_payroll returns, employee_payments holds exactly
\* one pay stub per roster record, in roster order; a run that does not
\* return raises and reports no result at all, so no result is ever reported
\* from which an employee of the roster is absent
C3_OneStubPerRecordInOrder ==
  IsRun =>
     IF ret.status = "returned"
     THEN /\ Len(ret.value.employee_payments) = Len(call.employees)
          /\ \A i \in 1..Len(call.employees) :
               ret.value.employee_payments[i].employee_id = call.employees[i].id
     ELSE /\ ret.status = "raised"
          /\ "value" \notin DOMAIN ret

\* a run that returned its result and recorded it: the roster is empty, as
\* every other run raises, and so is employee_payments
C3_Witness ==
  /\ IsRun
  /\ ret.status = "returned"
  /\ Len(call.employees) = Len(ret.value.employee_payments)
  /\ PeriodKey(call.pay_period) \in DOMAIN payroll_history
  /\ payroll_history[PeriodKey(call.pay_period)].employee_payments = << >>

\* the divisors the specification gives: periods_per_year
PeriodsPerYear(period_type) ==
  CASE period_type = "weekly" -> 52
    [] period_type = "biweekly" -> 26
    [] period_type = "semimonthly" -> 24
    [] period_type = "monthly" -> 12
    [] OTHER -> 26

\* C4: Social Security withholding is min(taxable_income * ss_rate,
\* (147000 / periods_per_year(period_type)) * ss_rate)
C4_SocialSecurityCapPerPeriodType ==
  IsStub =>
     SocialSecurityOf(ret.value)
       = Min(MulRate(ret.value.taxable_income, 620),
             MulRate((147000 * Unit) \div PeriodsPerYear(call.pay_period.period_type), 620))

\* C5: Medicare withholding is taxable_income * medicare_rate plus, when the
\* annualized income exceeds 200000, (annualized_income - 200000) * 0.009
\* / periods_per_year(period_type)
C5_MedicareSurtaxPerPeriodType ==
  IsStub =>
     LET periods == PeriodsPerYear(call.pay_period.period_type)
         annualized == ret.value.taxable_income * periods
         surtax == IF annualized > 200000 * Unit
                   THEN MulRate(annualized - 200000 * Unit, 90) \div periods
                   ELSE 0
     IN /\ MedicareOf(ret.value) = MulRate(ret.value.taxable_income, 145) + surtax
        /\ surtax >= 0

\* a record with non-negative salary or rate, hours, allowances and deduction
\* values, percentages within [0, 1]
NonNegativeRecord(employee) ==
  /\ Get(employee, "salary", 0) >= 0
  /\ Get(employee, "hours_worked", 0) >= 0
  /\ Get(employee, "overtime_hours", 0) >= 0
  /\ Get(employee, "allowances", 0) >= 0
  /\ \A i \in 1..Len(Get(employee, "deductions", << >>)) :
       LET item == employee.deductions[i]
       IN /\ item[2] >= 0
          /\ (item[1] \in DOMAIN deduction_types
              /\ deduction_types[item[1]].type = "percentage") => item[2] <= ValueDen

\* C6: for a non-negative record each of the four tax amounts is non-negative
C6_TaxesNonNegative ==
  (IsStub /\ NonNegativeRecord(call.employee)) =>
     \A i \in 1..4 : ret.value.tax_breakdown[i].amount >= 0

\* C7: gross pay is annual_salary / d for a salaried record (d = 52, 26, 24,
\* 12, and 26 for an unrecognized period type) and hourly_rate * regular_hours
\* + hourly_rate * 1.5 * overtime_hours for an hourly one; never negative for
\* a non-negative record
C7_GrossPayReference ==
  IsStub =>
     LET e == call.employee
         d == PeriodsPerYear(call.pay_period.period_type)
     IN /\ e.pay_type = "salary" => ret.value.gross_pay * d = e.salary * Unit
        /\ e.pay_type = "hourly" =>
             2 * ret.value.gross_pay
               = (2 * e.salary * e.hours_worked + 3 * e.salary * e.overtime_hours) * Unit
        /\ NonNegativeRecord(e) => ret.value.gross_pay >= 0

\* 78000 a year paid biweekly is 3000 a period
C7_Witness ==
  /\ IsStub
  /\ call.employee.pay_type = "salary"
  /\ call.employee.salary = 78000
  /\ call.pay_period.period_type = "biweekly"
  /\ ret.value.gross_pay = 3000 * Unit

\* the sequence without its i-th element
RemoveAt(items, i) ==
  [j \in 1..(Len(items) - 1) |-> IF j < i THEN items[j] ELSE items[j + 1]]

\* the positions of the deduction entries whose kind the catalog lacks
UnknownDeductions(employee) ==
  { i \in 1..Len(Get(employee, "deductions", << >>)) :
      employee.deductions[i][1] \notin DOMAIN deduction_types }

\* C11: a deduction entry whose kind is not in the catalog changes nothing:
\* the call raises no error and the pay stub equals the stub of the record
\* without that entry
C11_UnknownDeductionIsNoOp ==
  IsStubCall =>
     \A i \in UnknownDeductions(call.employee) :
        /\ ret.status = "returned"
        /\ ret.value = CalculateEmployeePayroll(
                          [call.employee EXCEPT !.deductions = RemoveAt(@, i)],
                          call.pay_period)

\* a record with an unknown kind before and after known ones: only the
\* known kind is withheld
C11_Witness ==
  /\ IsStub
  /\ call.employee.id = "EMP010"
  /\ Cardinality(UnknownDeductions(call.employee)) = 2
  /\ Len(ret.value.deductions_breakdown) = 1
  /\ ret.value.pre_tax_deductions > 0
  /\ ret.value.post_tax_deductions = 0

\* the employee records with the state set to s
WithState(employee, s) == [state |-> s] @@ employee

\* C12: an employee whose state is not a key of the state bracket table, or
\* who has no state, gets the state income tax of the same employee with
\* state DEFAULT, and no error is raised
C12_UnknownStateFallsBackToDefault ==
  (IsStubCall /\ ~GrossPayRaises(call.employee)
     /\ Get(call.employee, "state", "") \notin DOMAIN tax_rates.state) =>
     /\ ret.status = "returned"
     /\ StateOf(ret.value)
          = StateOf(CalculateEmployeePayroll(WithState(call.employee, "DEFAULT"),
                                             call.pay_period))

\* state ZZ is taxed by the DEFAULT table: state income tax is due
C12_Witness ==
  /\ IsStub
  /\ call.employee.id = "EMP007"
  /\ call.employee.state = "ZZ"
  /\ StateOf(ret.value) > 0

\* a number below zero
Negative(v) == v # NotANumber /\ v < 0

\* a malformed record: a pay_type that is neither salary nor hourly, or a
\* negative salary, rate or hours value
Malformed(employee) ==
  \/ Lower(Get(employee, "pay_type", "")) \notin {"salary", "hourly"}
  \/ Negative(Get(employee, "salary", 0))
  \/ Negative(Get(employee, "hours_worked", 0))
  \/ Negative(Get(employee, "overtime_hours", 0))

\* C15: _calculate_employee_payroll rejects a malformed record: it fails
\* with InvalidCompensationRecord and returns no pay stub
C15_MalformedRecordRejected ==
  (IsStubCall /\ Malformed(call.employee)) =>
     /\ ret.status = "raised"
     /\ ret.error = "InvalidCompensationRecord"

\* the records of a roster whose computation fails, and the others, in
\* roster order
FailedOf(employees) == SelectSeq(employees, GrossPayRaises)
ComputedOf(employees) == SelectSeq(employees, LAMBDA e : ~GrossPayRaises(e))

\* the fields of a result as calculate_payroll creates it
ResultKeys ==
  {"pay_period", "total_gross", "total_net", "total_taxes", "total_deductions",
   "employee_payments"}

\* C16: when an employee's computation fails the run is not aborted: it
\* returns the stubs of the other employees, totals that sum over those
\* stubs only, and the failed employees listed apart
C16_FailedEmployeeDoesNotAbortRun ==
  (IsRun /\ Len(FailedOf(call.employees)) > 0) =>
     /\ ret.status = "returned"
     /\ ret.value.employee_payments
          = [i \in 1..Len(ComputedOf(call.employees)) |->
               CalculateEmployeePayroll(ComputedOf(call.employees)[i], call.pay_period)]
     /\ ret.value.total_gross
          = SumOver([i \in 1..Len(ret.value.employee_payments) |->
                       ret.value.employee_payments[i].gross_pay], 1)
     /\ ret.value.total_net
          = SumOver([i \in 1..Len(ret.value.employee_payments) |->
                       ret.value.employee_payments[i].net_pay], 1)
     /\ \E listed \in DOMAIN ret.value \ ResultKeys :
          Len(ret.value[listed]) = Len(FailedOf(call.employees))

\* a deduction entry <<name, value>> whose kind the catalog has
InCatalog(item) == item[1] \in DOMAIN deduction_types

\* the entries of the record's deduction map whose kind is in the catalog, in
\* the iteration order of the map
CatalogDeductions(employee) ==
  SelectSeq(Get(employee, "deductions", << >>), InCatalog)

\* the amount the specification gives a deduction entry: gross_pay * value
\* for a percentage kind, value for a fixed kind
DeductionAmount(item, gross_pay) ==
  IF deduction_types[item[1]].type = "percentage"
  THEN (gross_pay * item[2]) \div ValueDen
  ELSE (item[2] * Unit) \div ValueDen

\* the amount of a breakdown line if its pre_tax flag is the given one
AmountIfFlag(line, pre_tax) == IF line.pre_tax = pre_tax THEN line.amount ELSE 0

\* C21: deductions_breakdown holds exactly one line per deduction entry whose
\* kind is in the catalog, in the iteration order of the record's deduction
\* map; a line's amount is gross_pay * value for a percentage kind and value
\* for a fixed kind, by the catalog's type; pre_tax_deductions is the sum of
\* the amounts of the lines flagged pre_tax and post_tax_deductions the sum
\* of the others
C21_BreakdownLinePerCatalogEntry ==
  IsStub =>
     /\ Len(ret.value.deductions_breakdown) = Len(CatalogDeductions(call.employee))
     /\ \A i \in 1..Len(CatalogDeductions(call.employee)) :
          /\ ret.value.deductions_breakdown[i].name
               = deduction_types[CatalogDeductions(call.employee)[i][1]].description
          /\ ret.value.deductions_breakdown[i].pre_tax
               = deduction_types[CatalogDeductions(call.employee)[i][1]].pre_tax
          /\ ret.value.deductions_breakdown[i].amount
               = DeductionAmount(CatalogDeductions(call.employee)[i], ret.value.gross_pay)
     /\ ret.value.pre_tax_deductions
          = SumOver([i \in 1..Len(ret.value.deductions_breakdown) |->
                       AmountIfFlag(ret.value.deductions_breakdown[i], TRUE)], 1)
     /\ ret.value.post_tax_deductions
          = SumOver([i \in 1..Len(ret.value.deductions_breakdown) |->
                       AmountIfFlag(ret.value.deductions_breakdown[i], FALSE)], 1)

\* a stub of EMP007, whose map has a percentage and a fixed pre-tax kind
\* followed by a fixed and a percentage post-tax kind: four lines, the first
\* a tenth of the gross pay and the second the fixed 150.00
C21_Witness ==
  /\ IsStub
  /\ call.employee.id = "EMP007"
  /\ Len(ret.value.deductions_breakdown) = 4
  /\ ret.value.deductions_breakdown[1].amount * 10 = ret.value.gross_pay
  /\ ret.value.deductions_breakdown[2].amount = 150 * Unit
  /\ ret.value.deductions_breakdown[2].pre_tax
  /\ ~ret.value.deductions_breakdown[3].pre_tax
  /\ ret.value.deductions_breakdown[4].amount * 20 = ret.value.gross_pay
  /\ ret.value.pre_tax_deductions > ret.value.post_tax_deductions
  /\ ret.value.post_tax_deductions > 0

\* the record with the value of its deduction entry i set to v
WithDeductionValue(employee, i, v) ==
  [employee EXCEPT !.deductions[i] = << @[1], v >>]

\* the step by which a deduction value is raised: half of the gross pay for
\* a percentage kind, 25.00 for a fixed kind
RaiseStep(item) ==
  IF deduction_types[item[1]].type = "percentage" THEN 50 ELSE 2500

\* the values a deduction entry is changed to: none, and a raised one
ChangedValues(item) == {0, item[2] + RaiseStep(item)} \ {item[2]}

\* the positions of the record's deduction entries of catalog kinds with the
\* given pre_tax flag
DeductionsFlagged(employee, pre_tax) ==
  { i \in 1..Len(Get(employee, "deductions", << >>)) :
      /\ InCatalog(employee.deductions[i])
      /\ deduction_types[employee.deductions[i][1]].pre_tax = pre_tax }

\* C22: taxable income is gross pay minus pre-tax deductions only: changing
\* the value of a post-tax deduction leaves taxable_income and the four tax
\* amounts unchanged and changes net_pay by the opposite of the change of
\* post_tax_deductions, and raising a pre-tax deduction raises no tax amount
C22_PostTaxLeavesTaxesPreTaxLowersThem ==
  IsStub =>
     /\ ret.value.taxable_income = ret.value.gross_pay - ret.value.pre_tax_deductions
     /\ \A i \in DeductionsFlagged(call.employee, FALSE) :
          \A v \in ChangedValues(call.employee.deductions[i]) :
             LET changed == CalculateEmployeePayroll(
                               WithDeductionValue(call.employee, i, v), call.pay_period)
             IN /\ changed.taxable_income = ret.value.taxable_income
                /\ TaxAmounts(changed) = TaxAmounts(ret.value)
                /\ changed.net_pay - ret.value.net_pay
                     = ret.value.post_tax_deductions - changed.post_tax_deductions
     /\ \A i \in DeductionsFlagged(call.employee, TRUE) :
          LET raised == CalculateEmployeePayroll(
                           WithDeductionValue(call.employee, i,
                              call.employee.deductions[i][2]
                              + RaiseStep(call.employee.deductions[i])),
                           call.pay_period)
          IN \A j \in 1..4 : TaxAmounts(raised)[j] <= TaxAmounts(ret.value)[j]

----
\* Properties of payroll_history (Spec)

\* C17: payroll_history is append-only over the calls of calculate_payroll:
\* an entry once recorded stays with the same content, also when a later run
\* has the same start_date and end_date, and every run that returns has an
\* entry under its (start_date, end_date)
C17_HistoryAppendOnly ==
  [][call'.op = "calculate_payroll" =>
       /\ \A k \in DOMAIN payroll_history :
            /\ k \in DOMAIN payroll_history'
            /\ payroll_history'[k] = payroll_history[k]
       /\ ret'.status = "returned" =>
            PeriodKey(call'.pay_period) \in DOMAIN payroll_history']_vars

\* the result the calculate_payroll of a call created and stored, for a
\* call of calculate_payroll or of run_scheduled_payroll that ran it
CreatedResult(c) ==
  IF c.op = "calculate_payroll"
  THEN RunPayroll(c.employees, c.pay_period).payroll_results
  ELSE RunPayroll(Get(c.company_data, "employees", << >>),
                  ScheduledPeriod(Get(c.company_data, "pay_schedule", "biweekly"),
                                  c.schedule_date).pay_period).payroll_results

\* C18: a result is never mutated after calculate_payroll created it: over
\* every operation, each entry of payroll_history is the entry it was before
\* or is the result, as created, of the calculate_payroll the operation ran
C18_ResultsNeverMutated ==
  [][\A k \in DOMAIN payroll_history' :
       \/ /\ k \in DOMAIN payroll_history
          /\ payroll_history'[k] = payroll_history[k]
       \/ /\ call'.op \in {"calculate_payroll", "run_scheduled_payroll"}
          /\ payroll_history'[k] = CreatedResult(call')]_vars

----
\* Properties of run_scheduled_payroll (Spec)

IsScheduledCall == call.op = "run_scheduled_payroll"

\* the schedule date is a pay day of the schedule: any day under the weekly
\* schedule, a day of an even ISO week under the biweekly one, the 15th or
\* the last day of the month under the semimonthly one, the last day of the
\* month under the monthly one
IsPayDay(pay_schedule, date) ==
  CASE pay_schedule = "weekly" -> TRUE
    [] pay_schedule = "biweekly" -> IsoWeek(date) % 2 = 0
    [] pay_schedule = "semimonthly" ->
         DayOf(date) \in {15, DaysInMonth(YearOf(date), MonthOf(date))}
    [] pay_schedule = "monthly" ->
         DayOf(date) = DaysInMonth(YearOf(date), MonthOf(date))
    [] OTHER -> FALSE

\* a roster of well-formed records with numeric pay fields
WellFormedRoster(employees) ==
  /\ NumericRoster(employees)
  /\ \A i \in 1..Len(employees) : ~Malformed(employees[i])

\* C23: for a company with a recognized pay_schedule, a roster of
\* well-formed records and a schedule_date that is a pay day of the schedule,
\* run_scheduled_payroll returns status "success" with payroll_data holding
\* one payment per employee and an employer_taxes entry
C23_ScheduledRunSucceeds ==
  (/\ IsScheduledCall
   /\ WellFormedRoster(Get(call.company_data, "employees", << >>))
   /\ IsPayDay(Get(call.company_data, "pay_schedule", "biweekly"), call.schedule_date)) =>
     /\ ret.value.status = "success"
     /\ Len(ret.value.payroll_data.employee_payments)
          = Len(Get(call.company_data, "employees", << >>))
     /\ "employer_taxes" \in DOMAIN ret.value.payroll_data

\* C24: a call of run_scheduled_payroll that returns a status other than
\* "success" (skipped, or error for an invalid schedule or a calculation
\* that raised) leaves payroll_history as it was; a "success" return adds or
\* sets exactly the one entry keyed by the computed start_date and end_date
C24_OnlySuccessTouchesHistory ==
  [][call'.op = "run_scheduled_payroll" =>
       IF ret'.value.status = "success"
       THEN /\ DOMAIN payroll_history'
                 = DOMAIN payroll_history
                   \cup { PeriodKey(ret'.value.payroll_data.pay_period) }
            /\ \A k \in DOMAIN payroll_history :
                  k # PeriodKey(ret'.value.payroll_data.pay_period)
                    => payroll_history'[k] = payroll_history[k]
            /\ payroll_history'[PeriodKey(ret'.value.payroll_data.pay_period)]
                 = ret'.value.payroll_data
            /\ ret'.value.payroll_data.pay_period
                 = ScheduledPeriod(Get(call'.company_data, "pay_schedule", "biweekly"),
                                   call'.schedule_date).pay_period
       ELSE payroll_history' = payroll_history]_vars

\* a scheduled run returned "success" and payroll_history holds its entry
\* next to the entry of another period
C24_Witness ==
  /\ IsScheduledCall
  /\ ret.value.status = "success"
  /\ DOMAIN payroll_history
       = { PeriodKey(ret.value.payroll_data.pay_period), << 15, 28 >> }
  /\ "employer_taxes" \in DOMAIN payroll_history[<< 1, 14 >>]
  /\ "employer_taxes" \notin DOMAIN payroll_history[<< 15, 28 >>]

----
\* Properties of the semimonthly schedule (ScheduleSpec)

\* the days of the pay period
PeriodDays(pay_period) == pay_period.start_date .. pay_period.end_date

\* the last day of the month of the date, as a day of the month
LastDay(date) == DaysInMonth(YearOf(date), MonthOf(date))

\* C25: under the semimonthly schedule run_scheduled_payroll processes
\* payroll exactly when schedule_date is the 15th or the last day of its
\* month and returns "skipped" on every other day; the run on the 15th
\* covers days 1 to 15, the run on the last day covers day 16 to the last
\* day, pay_date is end_date, and the two periods of the month are disjoint
\* and together cover each day of the month exactly once
C25_SemimonthlyPeriodsPartitionMonth ==
  (IsScheduledCall /\ call.company_data.pay_schedule = "semimonthly") =>
     /\ DayOf(call.schedule_date) \notin {15, LastDay(call.schedule_date)}
          => /\ ret.value.status = "skipped"
             /\ payroll_history = << >>
     /\ DayOf(call.schedule_date) \in {15, LastDay(call.schedule_date)}
          => /\ ret.value.status = "success"
             /\ ret.value.payroll_data.pay_period.end_date = call.schedule_date
             /\ ret.value.payroll_data.pay_period.pay_date = call.schedule_date
             /\ ret.value.payroll_data.pay_period.period_type = "semimonthly"
             /\ MonthOf(ret.value.payroll_data.pay_period.start_date)
                  = MonthOf(call.schedule_date)
             /\ DayOf(ret.value.payroll_data.pay_period.start_date)
                  = (IF DayOf(call.schedule_date) = 15 THEN 1 ELSE 16)
             /\ DOMAIN payroll_history
                  = { PeriodKey(ret.value.payroll_data.pay_period) }
     /\ \A day \in (call.schedule_date - DayOf(call.schedule_date) + 1)
                   .. (call.schedule_date - DayOf(call.schedule_date)
                       + LastDay(call.schedule_date)) :
          (day \in PeriodDays(ScheduledPeriod("semimonthly",
                     call.schedule_date - DayOf(call.schedule_date) + 15).pay_period))
          # (day \in PeriodDays(ScheduledPeriod("semimonthly",
                       call.schedule_date - DayOf(call.schedule_date)
                       + LastDay(call.schedule_date)).pay_period))

----
\* Properties of the biweekly schedule (BiweeklySpec)

\* C26: under the biweekly schedule payroll is paid every other Friday:
\* run_scheduled_payroll processes payroll only for run dates in an even ISO
\* week and skips all others, every pay_date is a Friday, the pay period is
\* the 14 consecutive days ending on the pay_date, and any two pay dates
\* produced for any two run dates differ by a multiple of 14 days
C26_BiweeklyEveryOtherFriday ==
  IsScheduledCall =>
     /\ IsoWeek(call.schedule_date) % 2 # 0 => ret.value.status = "skipped"
     /\ IsoWeek(call.schedule_date) % 2 = 0
          => /\ ret.value.status = "success"
             /\ Weekday(ret.value.payroll_data.pay_period.pay_date) = 4
             /\ ret.value.payroll_data.pay_period.end_date
                  = ret.value.payroll_data.pay_period.pay_date
             /\ ret.value.payroll_data.pay_period.start_date
                  = ret.value.payroll_data.pay_period.pay_date - 13
     /\ \A k1 \in DOMAIN payroll_history, k2 \in DOMAIN payroll_history :
          (payroll_history[k1].pay_period.pay_date
             - payroll_history[k2].pay_period.pay_date) % 14 = 0

----
\* Properties of get_payroll_history (Spec)

\* the stored runs whose period starts within the bounds, a bound that is
\* not given being no bound
RunsWithin(history, start_date, end_date) ==
  { k \in DOMAIN history :
      /\ start_date = None \/ start_date <= history[k].pay_period.start_date
      /\ end_date = None \/ history[k].pay_period.start_date <= end_date }

\* C27: get_payroll_history(start_date, end_date) returns exactly one record
\* per stored run whose period starts within the bounds (a missing bound is
\* unbounded, and with no bounds every stored run is returned), each record
\* carrying the run's period, employee count, total gross and total net; the
\* count reported is the number of records; payroll_history is unchanged
C27_HistoryQueryReturnsRunsInRange ==
  [][call'.op = "get_payroll_history" =>
       /\ payroll_history' = payroll_history
       /\ ret'.value.status = "success"
       /\ Cardinality(ret'.value.records)
            = Cardinality(RunsWithin(payroll_history, call'.start_date, call'.end_date))
       /\ \A k \in RunsWithin(payroll_history, call'.start_date, call'.end_date) :
             \E r \in ret'.value.records :
                /\ r.period.start_date = payroll_history[k].pay_period.start_date
                /\ r.period.end_date = payroll_history[k].pay_period.end_date
                /\ r.period.pay_date = payroll_history[k].pay_period.pay_date
                /\ r.period.type = payroll_history[k].pay_period.period_type
                /\ r.totals.employees = Len(payroll_history[k].employee_payments)
                /\ r.totals.gross = payroll_history[k].total_gross
                /\ r.totals.net = payroll_history[k].total_net
       /\ DOMAIN payroll_history # {}
            => ret'.value.message = Cardinality(ret'.value.records)]_vars

\* a query from day 15 on, on a history of two runs: only the run of the
\* period that starts on day 15 is returned
C27_Witness ==
  /\ call.op = "get_payroll_history"
  /\ call.start_date = 15
  /\ call.end_date = None
  /\ DOMAIN payroll_history = { << 1, 14 >>, << 15, 28 >> }
  /\ ret.value.message = 1
  /\ \A r \in ret.value.records : r.period.start_date = 15 /\ r.period.end_date = 28

----
\* Properties of the leave management tools (LeaveSpec)

\* the moves of a leave request's status
StatusMoves ==
  { << "pending", "approved" >>, << "pending", "rejected" >>,
    << "pending", "cancelled" >>, << "approved", "cancelled" >> }

\* the leave requests with the id
RequestsWithId(request_id) ==
  { i \in 1..Len(LeaveManagementTools.leave_requests) :
      LeaveManagementTools.leave_requests[i].request_id = request_id }

\* C28: a leave request's status only ever moves pending -> approved,
\* pending -> rejected, pending -> cancelled or approved -> cancelled;
\* approve_leave_request and reject_leave_request on a request that is not
\* pending or does not exist fail and leave the request, all balances and
\* leave_history unchanged; cancel_leave_request by anyone other than the
\* request's own employee fails without changing anything
C28_LeaveStatusMoves ==
  [][/\ \A i \in 1..Len(LeaveManagementTools.leave_requests) :
          /\ i <= Len(LeaveManagementTools'.leave_requests)
          /\ LeaveManagementTools'.leave_requests[i].request_id
               = LeaveManagementTools.leave_requests[i].request_id
          /\ \/ LeaveManagementTools'.leave_requests[i].status
                  = LeaveManagementTools.leave_requests[i].status
             \/ << LeaveManagementTools.leave_requests[i].status,
                    LeaveManagementTools'.leave_requests[i].status >> \in StatusMoves
     /\ (/\ call'.op \in {"approve_leave_request", "reject_leave_request"}
         /\ \A i \in RequestsWithId(call'.request_id) :
               LeaveManagementTools.leave_requests[i].status # "pending")
          => /\ ret'.value.success = FALSE
             /\ LeaveManagementTools' = LeaveManagementTools
     /\ (/\ call'.op = "cancel_leave_request"
         /\ \A i \in RequestsWithId(call'.request_id) :
               LeaveManagementTools.leave_requests[i].employee_id # call'.employee_id)
          => /\ ret'.value.success = FALSE
             /\ LeaveManagementTools' = LeaveManagementTools]_vars

\* approve_leave_request has failed on a request that was rejected, while
\* another request has gone from approved to cancelled
C28_Witness ==
  /\ call.op = "approve_leave_request"
  /\ ret.value.success = FALSE
  /\ \E i \in RequestsWithId(call.request_id) :
        LeaveManagementTools.leave_requests[i].status = "rejected"
  /\ \E i \in 1..Len(LeaveManagementTools.leave_requests) :
        /\ LeaveManagementTools.leave_requests[i].status = "cancelled"
        /\ LeaveManagementTools.leave_requests[i].approved_by = "M1"
  /\ Len(LeaveManagementTools.leave_history) = 2

\* the balance records of all employees and leave types
AllBalances ==
  { LeaveManagementTools.leave_balances[e].balances[t] :
      e \in DOMAIN LeaveManagementTools.leave_balances,
      t \in {"vacation", "sick", "personal", "bereavement"} }

\* C29 (InitializedSpec): sufficient leave balance is verified before
\* approval: for an employee whose balance was initialized before submitting
\* any request, after any sequence of submit, approve, reject and cancel the
\* remaining balance of every leave type is never negative, the approved
\* (used) days never exceeding the type's total allocation
C29_RemainingNeverNegative ==
  \A balance \in AllBalances :
     /\ balance.remaining >= 0
     /\ balance.used <= balance.total

\* the num_days of the pending requests of the employee and leave type,
\* from request i on
RECURSIVE PendingDays(_, _, _)
PendingDays(employee_id, leave_type, i) ==
  IF i > Len(LeaveManagementTools.leave_requests) THEN 0
  ELSE (IF /\ LeaveManagementTools.leave_requests[i].employee_id = employee_id
           /\ LeaveManagementTools.leave_requests[i].leave_type = leave_type
           /\ LeaveManagementTools.leave_requests[i].status = "pending"
        THEN LeaveManagementTools.leave_requests[i].num_days
        ELSE 0)
       + PendingDays(employee_id, leave_type, i + 1)

\* C30 (LeaveSpec): leave balance bookkeeping is consistent in every
\* reachable state: for every employee with a balance record and every leave
\* type in it, used + remaining = total, used >= 0, and pending is
\* non-negative and equals the sum of num_days of the employee's requests of
\* that type that are pending
C30_BalanceBookkeepingConsistent ==
  \A e \in DOMAIN LeaveManagementTools.leave_balances :
     \A t \in DOMAIN LeaveManagementTools.leave_balances[e].balances :
        /\ LeaveManagementTools.leave_balances[e].balances[t].used
             + LeaveManagementTools.leave_balances[e].balances[t].remaining
             = LeaveManagementTools.leave_balances[e].balances[t].total
        /\ LeaveManagementTools.leave_balances[e].balances[t].used >= 0
        /\ LeaveManagementTools.leave_balances[e].balances[t].pending >= 0
        /\ LeaveManagementTools.leave_balances[e].balances[t].pending
             = PendingDays(e, t, 1)

----
\* Properties of concurrent runs (ConcSpec)

\* every thread has left calculate_payroll
AllDone == \A t \in Threads : ret[t].pc = "done"

\* C20: no update of payroll_history is lost: once all the concurrent runs,
\* which are for distinct (start_date, end_date), have completed,
\* payroll_history holds the entry of each run (on a roster of records with
\* numeric pay fields), with the totals of its own roster only
C20_NoLostHistoryUpdate ==
  AllDone =>
     \A t \in { u \in Threads : NumericRoster(call[u].employees) } :
        /\ PeriodKey(call[t].pay_period) \in DOMAIN payroll_history
        /\ payroll_history[PeriodKey(call[t].pay_period)].pay_period = call[t].pay_period
        /\ Len(payroll_history[PeriodKey(call[t].pay_period)].employee_payments)
             = Len(call[t].employees)
        /\ payroll_history[PeriodKey(call[t].pay_period)].total_gross
             = SumOver([i \in 1..Len(call[t].employees) |->
                          GrossPay(call[t].employees[i], call[t].pay_period)], 1)

----
\* Properties of calculate_employer_taxes (Spec)

IsEmployerTaxes == call.op = "calculate_employer_taxes"

\* the state whose SUI rate the claim charges: the employee's own when it
\* has one, else DEFAULT
SuiStateOf(employee) ==
  IF Get(employee, "state", "DEFAULT") \in DOMAIN tax_rates.sui
  THEN employee.state
  ELSE "DEFAULT"

\* the FUTA and SUI wage of a stub: min(taxable_income, 7000 / periods_per_year)
UnemploymentWage(stub) ==
  Min(stub.taxable_income,
      (7000 * Unit) \div PeriodsPerYear(stub.pay_period.period_type))

\* C13: calculate_employer_taxes charges, summed over the stubs,
\* FUTA = min(taxable_income, 7000 / periods_per_year(period_type)) * futa_rate
\* and SUI = the same wage * sui_rate[s], s being the employee's state when
\* it has an SUI rate and DEFAULT otherwise
C13_UnemploymentTaxesPerPeriodAndState ==
  IsEmployerTaxes =>
     LET payments == Get(call.payroll_data, "employee_payments", << >>)
     IN /\ ret.value.futa
             = SumOver([i \in 1..Len(payments) |->
                          MulRate(UnemploymentWage(payments[i]), 60)], 1)
        /\ ret.value.sui
             = SumOver([i \in 1..Len(payments) |->
                          MulRate(UnemploymentWage(payments[i]),
                                  tax_rates.sui[SuiStateOf(
                                     EmployeeById(payments[i].employee_id))])], 1)

\* C14: the employer match equals the employee contribution: social_security
\* is the sum of the stubs' Social Security withholdings, medicare the sum of
\* their Medicare withholdings, and total = social_security + medicare + futa
\* + sui
C14_EmployerMatchEqualsEmployee ==
  IsEmployerTaxes =>
     LET payments == Get(call.payroll_data, "employee_payments", << >>)
     IN /\ ret.value.social_security
             = SumOver([i \in 1..Len(payments) |-> SocialSecurityOf(payments[i])], 1)
        /\ ret.value.medicare
             = SumOver([i \in 1..Len(payments) |-> MedicareOf(payments[i])], 1)
        /\ ret.value.total
             = ret.value.social_security + ret.value.medicare
               + ret.value.futa + ret.value.sui

----
\* Properties of _calculate_progressive_tax (TaxSpec)

IsTax == call.op = "_calculate_progressive_tax"

\* strictly increasing bounds ending in an unbounded bracket
WellFormedTable(brackets) ==
  /\ Len(brackets) >= 1
  /\ brackets[Len(brackets)].bracket = Inf
  /\ \A i \in 1..(Len(brackets) - 1) : brackets[i].bracket < brackets[i + 1].bracket

\* the reference: every bracket from i on taxes, at its rate, the part of
\* taxable above the previous bound and at or below its own
RECURSIVE WalkAllBrackets(_, _, _, _)
WalkAllBrackets(taxable, brackets, i, previous) ==
  IF i > Len(brackets) THEN 0
  ELSE MulRate(Max(0, Min(taxable, brackets[i].bracket) - previous), brackets[i].rate)
       + WalkAllBrackets(taxable, brackets, i + 1, brackets[i].bracket)

\* what a call taxes: max(0, income - allowances * 4050)
TaxedIncome(k) == Max(0, call.incomes[k] - call.allowances * 4050 * Unit)

\* C8: on a table with strictly increasing bounds ending in an unbounded
\* bracket the early-exit loop returns the total of the walk over all brackets
C8_EarlyExitEqualsFullWalk ==
  (IsTax /\ WellFormedTable(call.brackets)) =>
     \A k \in 1..2 :
        ret.value[k] = WalkAllBrackets(TaxedIncome(k), call.brackets, 1, 0)

\* an income in the first bracket of a table of several brackets with
\* non-zero rates: the brackets beyond it are skipped and tax is due
C8_Witness ==
  /\ IsTax
  /\ WellFormedTable(call.brackets)
  /\ Len(call.brackets) >= 3
  /\ \A i \in 1..Len(call.brackets) : call.brackets[i].rate > 0
  /\ TaxedIncome(1) > 0
  /\ TaxedIncome(1) < call.brackets[1].bracket
  /\ TaxedIncome(2) > call.brackets[2].bracket
  /\ ret.value[1] > 0
  /\ ret.value[2] > ret.value[1]

\* C9: on the federal and state tables of the agent, with no allowances,
\* incomes a < b give tax(a) <= tax(b)
C9_TaxMonotone ==
  (IsTax /\ call.table \in AgentTableNames /\ call.allowances = 0
         /\ call.incomes[1] >= 0 /\ call.incomes[1] < call.incomes[2]) =>
     ret.value[1] <= ret.value[2]

\* two incomes in different brackets of the federal table, the larger in
\* the top bracket
C9_Witness ==
  /\ IsTax
  /\ call.table = "federal"
  /\ call.allowances = 0
  /\ call.incomes[1] = 530000 * CoarseUnit
  /\ call.incomes[2] = 531000 * CoarseUnit
  /\ ret.value[1] < ret.value[2]

\* C10: the tax is 0 whenever income <= allowances * 4050, in particular for
\* income 0, and is otherwise the tax of income - allowances * 4050
C10_AllowanceDeduction ==
  IsTax =>
     \A k \in 1..2 :
        /\ call.incomes[k] <= call.allowances * 4050 * Unit => ret.value[k] = 0
        /\ call.incomes[k] = 0 => ret.value[k] = 0
        /\ ret.value[k] >= 0
        /\ WellFormedTable(call.brackets) =>
             ret.value[k] = WalkAllBrackets(TaxedIncome(k), call.brackets, 1, 0)

\* an income of exactly two allowances is not taxed, a larger one is
C10_Witness ==
  /\ IsTax
  /\ call.allowances = 2
  /\ call.incomes[1] = 8100 * Unit
  /\ call.incomes[2] > 8100 * Unit
  /\ ret.value[1] = 0
  /\ ret.value[2] > 0

====
